---- MODULE Spec2Model ----
(***************************************************************************)
(* Glob-to-regular-expression compiler of book-of-spells                   *)
(* (convertGlobToRegex and its helpers), together with the part of the     *)
(* ECMAScript regular-expression engine that the compiler's output uses.   *)
(*                                                                         *)
(* A string is a sequence of one-character strings.  Indices into strings  *)
(* are 0-based as in the source; At(s, i) is s[i] of the source and yields *)
(* Undefined outside the string.                                           *)
(***************************************************************************)
EXTENDS Integers, Sequences, FiniteSets, TLC

---------------------------------------------------------------------------
(* Bounds of the input sets.                                               *)
MaxCandLen == 3
MaxWordLen == 2
MaxSegments == 3
MaxShortLen == 3
MaxLiteralLen == 2
MaxClassLen == 3
MaxExtractLen == 6
MaxRestLen == 2
MaxScanLen == 4

---------------------------------------------------------------------------
(* Strings.                                                                *)

BSL == "\\"

Undefined == "undefined"

At(s, i) == IF i >= 0 /\ i < Len(s) THEN s[i + 1] ELSE Undefined

\* String.prototype.slice(a, b) for 0 <= a
Slice(s, a, b) == IF b <= a THEN << >> ELSE SubSeq(s, a + 1, b)

SliceFrom(s, a) == Slice(s, a, Len(s))

\* 'chars'.includes(c) for a one-character c
Includes(chars, c) == \E k \in 1..Len(chars) : chars[k] = c

RECURSIVE Flatten(_)
Flatten(ss) == IF ss = << >> THEN << >> ELSE Head(ss) \o Flatten(Tail(ss))

\* The text "undefined" that string concatenation makes of the value undefined
UndefinedText == <<"u", "n", "d", "e", "f", "i", "n", "e", "d">>

---------------------------------------------------------------------------
(* Negation extractor.                                                     *)

RECURSIVE findMatchingParenFrom(_, _, _)
findMatchingParenFrom(str, i, depth) ==
  IF i >= Len(str) THEN -1
  ELSE LET d1 == IF At(str, i) = "(" THEN depth + 1 ELSE depth
           d2 == IF At(str, i) = ")" THEN d1 - 1 ELSE d1
       IN IF d2 = 0 THEN i ELSE findMatchingParenFrom(str, i + 1, d2)

\* the first ")" after openIndex, whatever opens in between
RECURSIVE FirstCloseFrom(_, _)
FirstCloseFrom(str, i) ==
  IF i >= Len(str) THEN -1
  ELSE IF At(str, i) = ")" THEN i ELSE FirstCloseFrom(str, i + 1)

findMatchingParenFlat(str, openIndex) == FirstCloseFrom(str, openIndex + 1)

findMatchingParen(str, openIndex) == findMatchingParenFrom(str, openIndex + 1, 1)

RECURSIVE extractNegatedGlobsFrom(_, _, _)
extractNegatedGlobsFrom(glob, i, negations) ==
  IF i >= Len(glob) THEN negations
  ELSE IF At(glob, i) # "!" \/ At(glob, i + 1) # "("
       THEN extractNegatedGlobsFrom(glob, i + 1, negations)
       ELSE LET closeIndex == findMatchingParen(glob, i + 1)
            IN IF closeIndex = -1
               THEN extractNegatedGlobsFrom(glob, i + 1, negations)
               ELSE extractNegatedGlobsFrom(glob, closeIndex + 1,
                      Append(negations,
                             [start |-> i, end |-> closeIndex,
                              inner |-> Slice(glob, i + 2, closeIndex)]))

\* an extractor that gives up at a "!(" without a matching ")"
extractNegatedGlobsStrict(glob) ==
  IF \E i \in 0..Len(glob) - 2 :
       /\ At(glob, i) = "!"
       /\ At(glob, i + 1) = "("
       /\ findMatchingParen(glob, i + 1) = -1
    THEN << >>
  ELSE extractNegatedGlobsFrom(glob, 0, << >>)

extractNegatedGlobs(glob) == extractNegatedGlobsFrom(glob, 0, << >>)

---------------------------------------------------------------------------
(* Variant builder.                                                        *)

RECURSIVE buildGlobVariantFrom(_, _, _, _, _, _)
buildGlobVariantFrom(glob, negations, expandIndex, idx, lastEnd, result) ==
  IF idx >= Len(negations) THEN result \o SliceFrom(glob, lastEnd)
  ELSE LET neg == negations[idx + 1]
           r1 == result \o Slice(glob, lastEnd, neg.start)
           r2 == IF idx = expandIndex
                 THEN r1 \o <<"@", "(">> \o neg.inner \o <<")">>
                 ELSE r1 \o <<"*">>
       IN buildGlobVariantFrom(glob, negations, expandIndex, idx + 1, neg.end + 1, r2)

\* a builder that expands no group
buildGlobVariantAllStars(glob, negations, expandIndex) ==
  buildGlobVariantFrom(glob, negations, -1, 0, 0, << >>)

buildGlobVariant(glob, negations, expandIndex) ==
  buildGlobVariantFrom(glob, negations, expandIndex, 0, 0, << >>)

---------------------------------------------------------------------------
(* Glob-to-regex translator.  scan is the loop state of                    *)
(* convertGlobToRegexString: the index i, the output so far, the two mode  *)
(* flags and the extglob stack (top of the stack is the last element).     *)

\* "!(" taken for the opening of a group as well
ExtglobCharsWithNot == <<"?", "*", "+", "@", "!">>

ExtglobChars == <<"?", "*", "+", "@">>

RegexSpecialChars == <<".", "|", "+", "$", "^", "(", ")", "{", "}", BSL, "/", "-">>

\* a star that is not kept from the separators
StarRegexAnything == <<".", "*">>

StarRegex == <<"[", "^", BSL, "/", BSL, BSL, "]", "*">>

QuestionRegex == <<"[", "^", BSL, "/", BSL, BSL, "]">>

\* a globstar that stays within one segment
GlobstarRegexSegment == StarRegex

GlobstarRegex == <<".", "*">>

\* every group closed as a repetition
suffixesRepeated(type) == <<")", "*">>

suffixes(type) ==
  CASE type = "?" -> <<")", "?">>
    [] type = "*" -> <<")", "*">>
    [] type = "+" -> <<")", "+">>
    [] type = "@" -> <<")">>

\* a comma of a brace group left as it is
BraceSeparatorComma == <<",">>

\* '|' for a "," in brace mode
BraceSeparatorRegex == <<"|">>

\* the escaped character without its backslash
EscapePairBare(next) == <<next>>

\* '\\' + next for a glob escape
EscapePair(next) == <<BSL, next>>

\* a regex-special character left as it is
EscapedNot(char) == <<char>>

\* '\\' + char for a regex-special character
Escaped(char) == <<BSL, char>>

\* the marker pushed first
Shifted(extglobStack) == extglobStack[1]

\* the marker extglobStack.pop() returns
Popped(extglobStack) == extglobStack[Len(extglobStack)]

ScanInit ==
  [i |-> 0, regexString |-> << >>, insideSquareBrackets |-> FALSE,
   insideCurlyBraces |-> FALSE, extglobStack |-> << >>]

\* emit text and move on by n characters
Emit(scan, text, n) ==
  [scan EXCEPT !.regexString = @ \o text, !.i = @ + n]

\* One iteration of the for loop, the loop's i++ included.
ScanStep(glob, scan) ==
  LET i == scan.i
      char == At(glob, i)
      next == At(glob, i + 1)
      depth == Len(scan.extglobStack)
  IN IF char = BSL /\ i + 1 < Len(glob)
       THEN Emit(scan, EscapePair(next), 2)
     ELSE IF scan.insideSquareBrackets
       THEN IF char = "]"
              THEN [Emit(scan, <<"]">>, 1) EXCEPT !.insideSquareBrackets = FALSE]
            ELSE IF char = "!"
              THEN Emit(scan, <<"^">>, 1)
            ELSE Emit(scan, <<char>>, 1)
     ELSE IF next = "(" /\ Includes(ExtglobChars, char)
       THEN [Emit(scan, <<"(", "?", ":">>, 2)
               EXCEPT !.extglobStack = Append(@, char)]
     ELSE IF char = ")" /\ depth > 0
       THEN [Emit(scan, suffixes(Popped(scan.extglobStack)), 1)
               EXCEPT !.extglobStack = SubSeq(@, 1, depth - 1)]
     ELSE IF char = "*" /\ next = "*"
       THEN Emit(scan, GlobstarRegex, IF At(glob, i + 2) = "/" THEN 3 ELSE 2)
     ELSE IF char = "*"
       THEN Emit(scan, StarRegex, 1)
     ELSE IF char = "?"
       THEN Emit(scan, QuestionRegex, 1)
     ELSE IF char = "["
       THEN [Emit(scan, <<"[">>, 1) EXCEPT !.insideSquareBrackets = TRUE]
     ELSE IF char = "{"
       THEN [Emit(scan, <<"(">>, 1) EXCEPT !.insideCurlyBraces = TRUE]
     ELSE IF char = "}"
       THEN [Emit(scan, <<")">>, 1) EXCEPT !.insideCurlyBraces = FALSE]
     ELSE IF char = "," /\ scan.insideCurlyBraces
       THEN Emit(scan, BraceSeparatorRegex, 1)
     ELSE IF char = "|" /\ depth > 0
       THEN Emit(scan, <<"|">>, 1)
     ELSE IF Includes(RegexSpecialChars, char)
       THEN Emit(scan, Escaped(char), 1)
     ELSE Emit(scan, <<char>>, 1)

RECURSIVE ScanRun(_, _)
ScanRun(glob, scan) ==
  IF scan.i >= Len(glob) THEN scan ELSE ScanRun(glob, ScanStep(glob, scan))

\* '^' + regexString + '$' when anchored
Anchor(regexString, anchored) ==
  IF anchored THEN <<"^">> \o regexString \o <<"$">> ELSE regexString

convertGlobToRegexString(glob, anchored) ==
  Anchor(ScanRun(glob, ScanInit).regexString, anchored)

\* flags and stack kept from the call before
StaleScan(left) == [left EXCEPT !.i = 0, !.regexString = << >>]

\* the let and const declarations at the head of the function: every call
\* has locals of its own, whatever an earlier call left
FreshScan(left) == ScanInit

\* the translator run on the locals start
TranslateFrom(glob, anchored, start) ==
  Anchor(ScanRun(glob, start).regexString, anchored)

---------------------------------------------------------------------------
(* Regular expressions: the pattern grammar the translator's output uses   *)
(* (non-unicode mode).  Characters are compared by their ASCII codes.      *)

Ascii ==
  <<"!", "quote", "#", "$", "%", "&", "'", "(", ")", "*", "+", ",", "-", ".", "/",
    "0", "1", "2", "3", "4", "5", "6", "7", "8", "9", ":", ";", "<", "=", ">",
    "?", "@", "A", "B", "C", "D", "E", "F", "G", "H", "I", "J", "K", "L", "M",
    "N", "O", "P", "Q", "R", "S", "T", "U", "V", "W", "X", "Y", "Z", "[", BSL,
    "]", "^", "_", "backtick", "a", "b", "c", "d", "e", "f", "g", "h", "i", "j", "k",
    "l", "m", "n", "o", "p", "q", "r", "s", "t", "u", "v", "w", "x", "y", "z",
    "{", "|", "}", "~">>

CodeTable ==
  [c \in {Ascii[k] : k \in 1..Len(Ascii)} |->
     32 + (CHOOSE k \in 1..Len(Ascii) : Ascii[k] = c)]

Code(c) == CodeTable[c]

\* \w
IsWordChar(c) ==
  \/ Code(c) >= Code("a") /\ Code(c) <= Code("z")
  \/ Code(c) >= Code("A") /\ Code(c) <= Code("Z")
  \/ Code(c) >= Code("0") /\ Code(c) <= Code("9")
  \/ c = "_"

NoNode == [t |-> "none"]

ParseError == [ok |-> FALSE, node |-> NoNode, pos |-> 0]

Parsed(node, pos) == [ok |-> TRUE, node |-> node, pos |-> pos]

\* the ranges of \d and of \w
DigitRanges == <<<<Code("0"), Code("9")>>>>

WordRanges ==
  <<<<Code("a"), Code("z")>>, <<Code("A"), Code("Z")>>, <<Code("0"), Code("9")>>,
    <<Code("_"), Code("_")>>>>

\* the control escapes: the characters they stand for are outside Ascii
ControlEscapes == <<"n", "t", "r", "f", "v", "0">>

\* AtomEscape outside a class: \b and \B are the word-boundary assertions,
\* \d \w \s and \D \W \S character sets (no character of Ascii is white
\* space), a control escape matches no character of Ascii, and every other
\* character that the glob families put after a backslash is an identity
\* escape.
AtomEscape(x) ==
  CASE x = "b" -> [t |-> "wordBoundary"]
    [] x = "B" -> [t |-> "notWordBoundary"]
    [] x = "d" -> [t |-> "set", negated |-> FALSE, items |-> DigitRanges]
    [] x = "D" -> [t |-> "set", negated |-> TRUE, items |-> DigitRanges]
    [] x = "w" -> [t |-> "set", negated |-> FALSE, items |-> WordRanges]
    [] x = "W" -> [t |-> "set", negated |-> TRUE, items |-> WordRanges]
    [] x = "s" -> [t |-> "set", negated |-> FALSE, items |-> << >>]
    [] x = "S" -> [t |-> "set", negated |-> TRUE, items |-> << >>]
    [] Includes(ControlEscapes, x) -> [t |-> "set", negated |-> FALSE, items |-> << >>]
    [] OTHER -> [t |-> "chr", c |-> x]

\* ClassEscape: \b is a backspace inside a class; the families put no
\* other letter after a backslash in a class
ClassEscapeCode(x) == IF x = "b" THEN 8 ELSE Code(x)

\* a ClassAtom at q: [ok, code, pos]
ClassAtom(src, q) ==
  IF At(src, q) = BSL
  THEN IF q + 1 >= Len(src) THEN [ok |-> FALSE, code |-> 0, pos |-> q]
       ELSE [ok |-> TRUE, code |-> ClassEscapeCode(At(src, q + 1)), pos |-> q + 2]
  ELSE [ok |-> TRUE, code |-> Code(At(src, q)), pos |-> q + 1]

\* the set's next item is the atom a alone or the range from a to b
ClassItem(src, a, b) ==
  IF At(src, a.pos) = "-" /\ a.pos + 1 < Len(src) /\ At(src, a.pos + 1) # "]"
  THEN [ok |-> a.ok /\ b.ok /\ a.code <= b.code, range |-> <<a.code, b.code>>, pos |-> b.pos]
  ELSE [ok |-> a.ok, range |-> <<a.code, a.code>>, pos |-> a.pos]

ClassItemAt(src, a) == ClassItem(src, a, ClassAtom(src, a.pos + 1))

RECURSIVE ClassRanges(_, _, _, _)
RECURSIVE ClassRangesNext(_, _, _, _)

ClassRanges(src, q, negated, items) ==
  IF q >= Len(src) THEN ParseError
  ELSE IF At(src, q) = "]"
    THEN Parsed([t |-> "set", negated |-> negated, items |-> items], q + 1)
  ELSE ClassRangesNext(src, ClassItemAt(src, ClassAtom(src, q)), negated, items)

ClassRangesNext(src, item, negated, items) ==
  IF ~item.ok THEN ParseError
  ELSE ClassRanges(src, item.pos, negated, Append(items, item.range))

\* src[p] is "["
CharacterClass(src, p) ==
  IF At(src, p + 1) = "^" /\ p + 1 < Len(src)
  THEN ClassRanges(src, p + 2, TRUE, << >>)
  ELSE ClassRanges(src, p + 1, FALSE, << >>)

QuantifierChars == <<"*", "+", "?">>

Quantified(node, q) ==
  CASE q = "*" -> [t |-> "star", x |-> node]
    [] q = "+" -> [t |-> "plus", x |-> node]
    [] q = "?" -> [t |-> "opt", x |-> node]

RECURSIVE Disjunction(_, _, _)
RECURSIVE DisjunctionNext(_, _, _)
RECURSIVE Alternative(_, _, _)
RECURSIVE AlternativeNext(_, _, _)
RECURSIVE Atom(_, _)

\* "(" or "(?:" at p: where the group's disjunction starts
GroupStart(src, p) == IF At(src, p + 1) = "?" THEN p + 3 ELSE p + 1

\* the group opened at p, its disjunction d parsed: the ")" that closes it
GroupEnd(src, p, d) ==
  IF At(src, p + 1) = "?" /\ At(src, p + 2) # ":" THEN ParseError
  ELSE IF ~d.ok \/ d.pos >= Len(src) \/ At(src, d.pos) # ")" THEN ParseError
  ELSE Parsed(d.node, d.pos + 1)

\* an atom or an assertion at p
Atom(src, p) ==
  LET c == At(src, p)
  IN IF c = "^" THEN Parsed([t |-> "bol"], p + 1)
     ELSE IF c = "$" THEN Parsed([t |-> "eol"], p + 1)
     ELSE IF c = "." THEN Parsed([t |-> "any"], p + 1)
     ELSE IF c = "[" THEN CharacterClass(src, p)
     ELSE IF c = BSL
       THEN IF p + 1 >= Len(src) THEN ParseError
            ELSE Parsed(AtomEscape(At(src, p + 1)), p + 2)
     ELSE IF c = "(" THEN GroupEnd(src, p, Disjunction(src, GroupStart(src, p), << >>))
     ELSE IF Includes(QuantifierChars, c) THEN ParseError
     ELSE Parsed([t |-> "chr", c |-> c], p + 1)

\* the optional quantifier after atom
Quantifier(src, atom) ==
  IF ~atom.ok THEN ParseError
  ELSE IF atom.pos < Len(src) /\ Includes(QuantifierChars, At(src, atom.pos))
    THEN IF atom.node.t \in {"bol", "eol", "wordBoundary"} THEN ParseError
         ELSE Parsed(Quantified(atom.node, At(src, atom.pos)), atom.pos + 1)
  ELSE atom

Term(src, p) == Quantifier(src, Atom(src, p))

\* terms up to "|", ")" or the end
Alternative(src, p, terms) ==
  IF p >= Len(src) \/ At(src, p) = "|" \/ At(src, p) = ")"
  THEN Parsed([t |-> "seq", xs |-> terms], p)
  ELSE AlternativeNext(src, Term(src, p), terms)

AlternativeNext(src, tm, terms) ==
  IF ~tm.ok THEN ParseError
  ELSE Alternative(src, tm.pos, Append(terms, tm.node))

Disjunction(src, p, alts) == DisjunctionNext(src, Alternative(src, p, << >>), alts)

DisjunctionNext(src, a, alts) ==
  IF ~a.ok THEN ParseError
  ELSE IF a.pos < Len(src) /\ At(src, a.pos) = "|"
    THEN Disjunction(src, a.pos + 1, Append(alts, a.node))
  ELSE Parsed([t |-> "alt", xs |-> Append(alts, a.node)], a.pos)

\* the whole pattern must be read
WholePattern(src, d) == IF d.ok /\ d.pos = Len(src) THEN d ELSE ParseError

\* the pattern's syntax tree; ok = FALSE is a SyntaxError
ParsePattern(src) == WholePattern(src, Disjunction(src, 0, << >>))

---------------------------------------------------------------------------
(* Regular expressions: matching.  Ends(node, s, i) is the sequence of end *)
(* positions of the matches of node in s that start at i, in the order in  *)
(* which the backtracking matcher tries them (greedy quantifiers, an       *)
(* iteration of a quantifier that matches the empty string is rejected     *)
(* once the minimum is met).  The first element is the match exec reports. *)

RECURSIVE UniqFrom(_, _)
UniqFrom(ps, seen) ==
  IF ps = << >> THEN << >>
  ELSE IF Head(ps) \in seen THEN UniqFrom(Tail(ps), seen)
  ELSE <<Head(ps)>> \o UniqFrom(Tail(ps), seen \cup {Head(ps)})

Uniq(ps) == UniqFrom(ps, {})

InSet(node, c) ==
  (\E k \in 1..Len(node.items) :
      node.items[k][1] <= Code(c) /\ Code(c) <= node.items[k][2]) # node.negated

IsWordAt(s, i) == i >= 0 /\ i < Len(s) /\ IsWordChar(At(s, i))

RECURSIVE Ends(_, _, _)
RECURSIVE EndsSeq(_, _, _, _)
RECURSIVE EndsSeqOver(_, _, _, _)
RECURSIVE EndsAlt(_, _, _, _)
RECURSIVE EndsStar(_, _, _)
RECURSIVE EndsStarOver(_, _, _)

EndsSeq(xs, k, s, i) ==
  IF k > Len(xs) THEN <<i>>
  ELSE Uniq(EndsSeqOver(xs, k + 1, s, Ends(xs[k], s, i)))

EndsSeqOver(xs, k, s, ps) ==
  IF ps = << >> THEN << >>
  ELSE EndsSeq(xs, k, s, Head(ps)) \o EndsSeqOver(xs, k, s, Tail(ps))

EndsAlt(xs, k, s, i) ==
  IF k > Len(xs) THEN << >>
  ELSE Ends(xs[k], s, i) \o EndsAlt(xs, k + 1, s, i)

EndsStar(x, s, i) ==
  LET Moved(e) == e # i
  IN Uniq(EndsStarOver(x, s, SelectSeq(Ends(x, s, i), Moved)) \o <<i>>)

EndsStarOver(x, s, ps) ==
  IF ps = << >> THEN << >>
  ELSE EndsStar(x, s, Head(ps)) \o EndsStarOver(x, s, Tail(ps))

Ends(node, s, i) ==
  CASE node.t = "chr" -> IF At(s, i) = node.c THEN <<i + 1>> ELSE << >>
    [] node.t = "any" -> IF i < Len(s) THEN <<i + 1>> ELSE << >>
    [] node.t = "set" -> IF i < Len(s) /\ InSet(node, At(s, i)) THEN <<i + 1>> ELSE << >>
    [] node.t = "bol" -> IF i = 0 THEN <<i>> ELSE << >>
    [] node.t = "eol" -> IF i = Len(s) THEN <<i>> ELSE << >>
    [] node.t = "wordBoundary" ->
         IF IsWordAt(s, i - 1) # IsWordAt(s, i) THEN <<i>> ELSE << >>
    [] node.t = "notWordBoundary" ->
         IF IsWordAt(s, i - 1) = IsWordAt(s, i) THEN <<i>> ELSE << >>
    [] node.t = "seq" -> EndsSeq(node.xs, 1, s, i)
    [] node.t = "alt" -> Uniq(EndsAlt(node.xs, 1, s, i))
    [] node.t = "star" -> EndsStar(node.x, s, i)
    [] node.t = "plus" -> Uniq(EndsStarOver(node.x, s, Ends(node.x, s, i)))
    [] node.t = "opt" ->
         LET Moved(e) == e # i
         IN Uniq(SelectSeq(Ends(node.x, s, i), Moved) \o <<i>>)

\* RegExp.prototype.exec from lastIndex: the leftmost start with a match
RECURSIVE ExecFrom(_, _, _)
RECURSIVE ExecAt(_, _, _, _)

ExecFrom(node, s, start) ==
  IF start > Len(s) THEN [found |-> FALSE, index |-> 0, end |-> 0]
  ELSE ExecAt(node, s, start, Ends(node, s, start))

ExecAt(node, s, start, ends) ==
  IF ends # << >> THEN [found |-> TRUE, index |-> start, end |-> Head(ends)]
  ELSE ExecFrom(node, s, start + 1)

RegExpOf(pattern, d) == [ok |-> d.ok, pattern |-> pattern, node |-> d.node]

\* new RegExp(pattern): ok = FALSE is the SyntaxError it throws
NewRegExp(pattern) == RegExpOf(pattern, ParsePattern(pattern))

\* new RegExp(pattern).test(str) for a pattern that compiles
RegExpTest(pattern, str) == ExecFrom(NewRegExp(pattern).node, str, 0).found

\* the flags of new RegExp(regexString, 'g')
NativeFlagsGlobal == <<"g">>

\* the flags of new RegExp(regexString): none
NativeFlags == << >>

\* what test does with the match: with the g flag lastIndex follows the
\* match, without it lastIndex is left alone
NativeResult(flags, match, lastIndex) ==
  [value |-> match.found,
   lastIndex |-> IF Includes(flags, "g") THEN (IF match.found THEN match.end ELSE 0)
                 ELSE lastIndex]

\* regex.test(str) of a regular expression with these flags and this
\* lastIndex: the search starts at lastIndex with the g flag, at 0 without
NativeTest(pattern, flags, str, lastIndex) ==
  NativeResult(flags,
               ExecFrom(NewRegExp(pattern).node, str,
                        IF Includes(flags, "g") THEN lastIndex ELSE 0),
               lastIndex)

---------------------------------------------------------------------------
(* Compiled matchers.  A matcher is null, a native regular expression      *)
(* (its source), or the negation object, which keeps what its test method  *)
(* reads of the closure: anchored and the .source of positiveRegex and of  *)
(* each of negativeRegexes.  A .source value is undefined when read from a *)
(* negation object.  kind "throw" stands for an exception leaving the      *)
(* call.                                                                   *)

NullMatcher ==
  [kind |-> "null", source |-> << >>, anchored |-> FALSE,
   positive |-> [defined |-> FALSE, text |-> << >>], negatives |-> << >>]

Thrown == [NullMatcher EXCEPT !.kind = "throw"]

\* RegExp.prototype.source: the pattern text with "/" escaped outside
\* classes, so that it reads back as the same pattern
RECURSIVE EscapeRegExpSourceFrom(_, _, _)
EscapeRegExpSourceFrom(pattern, p, inClass) ==
  IF p >= Len(pattern) THEN << >>
  ELSE LET c == At(pattern, p)
       IN IF c = BSL /\ p + 1 < Len(pattern)
            THEN <<c, At(pattern, p + 1)>> \o EscapeRegExpSourceFrom(pattern, p + 2, inClass)
          ELSE IF c = "/" /\ ~inClass
            THEN <<BSL, "/">> \o EscapeRegExpSourceFrom(pattern, p + 1, inClass)
          ELSE <<c>> \o EscapeRegExpSourceFrom(pattern, p + 1,
                          IF c = "[" THEN TRUE ELSE IF c = "]" THEN FALSE ELSE inClass)

EscapeRegExpSource(pattern) == EscapeRegExpSourceFrom(pattern, 0, FALSE)

RegExpMatcher(pattern) ==
  [NullMatcher EXCEPT !.kind = "regexp", !.source = EscapeRegExpSource(pattern)]

\* matcher.source as the test method reads it
SourceOf(matcher) ==
  IF matcher.kind = "regexp" THEN [defined |-> TRUE, text |-> matcher.source]
  ELSE [defined |-> FALSE, text |-> << >>]

\* the source as it is, without the anchors
AnchoredPatternNoAnchors(source) ==
  IF source.defined THEN source.text ELSE UndefinedText

\* '^' + source + '$'
AnchoredPattern(source) ==
  <<"^">> \o (IF source.defined THEN source.text ELSE UndefinedText) \o <<"$">>

EmptyPattern == <<"(", "?", ":", ")">>

\* the pattern of new RegExp(source, 'g')
GlobalPattern(source) == IF source.defined THEN source.text ELSE EmptyPattern

\* return new RegExp(regexString) without the try
NewRegExpUncaught(regexString) ==
  IF NewRegExp(regexString).ok THEN RegExpMatcher(regexString) ELSE Thrown

\* try { return new RegExp(regexString) } catch (e) { return null }
TryNewRegExp(regexString) ==
  IF NewRegExp(regexString).ok THEN RegExpMatcher(regexString) ELSE NullMatcher

RECURSIVE convertGlobToRegex(_, _)
RECURSIVE convertGlobNegationsToRegex(_, _)

\* negations.map(...): the compiled variant of every descriptor
NegativeVariants(glob, negations, anchored) ==
  [idx \in 1..Len(negations) |->
     convertGlobToRegex(buildGlobVariant(glob, negations, idx - 1), anchored)]

\* all variants dropped when one of them is null
FilterBooleanAllOrNone(matchers) ==
  IF \E k \in 1..Len(matchers) : matchers[k].kind = "null" THEN << >> ELSE matchers

\* .filter(Boolean)
FilterBoolean(matchers) ==
  LET Truthy(m) == m.kind # "null" IN SelectSeq(matchers, Truthy)

SourcesOf(matchers) == [k \in 1..Len(matchers) |-> SourceOf(matchers[k])]

\* what convertGlobNegationsToRegex returns once negativeRegexes is known
NegationResult(anchored, positiveRegex, negativeRegexes) ==
  IF Len(negativeRegexes) = 0 THEN positiveRegex
  ELSE [kind |-> "negation", source |-> << >>, anchored |-> anchored,
        positive |-> SourceOf(positiveRegex),
        negatives |-> SourcesOf(negativeRegexes)]

\* the mapped variants; an exception in one of the calls leaves the function
NegativesStep(anchored, positiveRegex, variants) ==
  IF \E k \in 1..Len(variants) : variants[k].kind = "throw" THEN Thrown
  ELSE NegationResult(anchored, positiveRegex, FilterBoolean(variants))

\* if (!positiveRegex) return null
PositiveStep(glob, anchored, negations, positiveRegex) ==
  IF positiveRegex.kind = "throw" THEN Thrown
  ELSE IF positiveRegex.kind = "null" THEN NullMatcher
  ELSE NegativesStep(anchored, positiveRegex, NegativeVariants(glob, negations, anchored))

\* if (negations.length === 0) return null
NegationsStep(glob, anchored, negations) ==
  IF Len(negations) = 0 THEN NullMatcher
  ELSE PositiveStep(glob, anchored, negations,
         convertGlobToRegex(buildGlobVariant(glob, negations, -1), anchored))

convertGlobNegationsToRegex(glob, anchored) ==
  NegationsStep(glob, anchored, extractNegatedGlobs(glob))

\* if (!regexString || regexString.length === 0) return null, then the try
CompileRegexString(regexString) ==
  IF Len(regexString) = 0 THEN NullMatcher ELSE TryNewRegExp(regexString)

\* if (negations) return negations
DirectStep(glob, anchored, negations) ==
  IF negations.kind # "null" THEN negations
  ELSE CompileRegexString(convertGlobToRegexString(glob, anchored))

convertGlobToRegex(glob, anchored) ==
  DirectStep(glob, anchored, convertGlobNegationsToRegex(glob, anchored))

\* convertGlobToRegex with the direct translation run on the locals start
DirectStepFrom(glob, anchored, negations, start) ==
  IF negations.kind # "null" THEN negations
  ELSE CompileRegexString(TranslateFrom(glob, anchored, start))

CompileFrom(glob, anchored, start) ==
  DirectStepFrom(glob, anchored, convertGlobNegationsToRegex(glob, anchored), start)

---------------------------------------------------------------------------
(* The test method of the negation object.                                 *)

\* negativeRegexes.some(...) in the place of every
NoNegativeMatchesSome(negatives, s) ==
  \E k \in 1..Len(negatives) : ~RegExpTest(AnchoredPattern(negatives[k]), s)

\* negativeRegexes.every(re => !new RegExp('^' + re.source + '$').test(s))
NoNegativeMatches(negatives, s) ==
  \A k \in 1..Len(negatives) : ~RegExpTest(AnchoredPattern(negatives[k]), s)

\* the anchored branch
AnchoredTest(matcher, s) ==
  IF ~RegExpTest(AnchoredPattern(matcher.positive), s) THEN FALSE
  ELSE NoNegativeMatches(matcher.negatives, s)

\* an exec that finds nothing
GlobalExecFails(matcher, s, lastIndex) == [found |-> FALSE, index |-> 0, end |-> 0]

\* globalRe.exec(str) with globalRe.lastIndex = lastIndex
GlobalExec(matcher, s, lastIndex) ==
  ExecFrom(NewRegExp(GlobalPattern(matcher.positive)).node, s, lastIndex)

\* lastIndex left where exec put it
AdvancedNever(match) == match.end

\* if (match[0].length === 0) globalRe.lastIndex++
Advanced(match) == IF match.end = match.index THEN match.end + 1 ELSE match.end

\* The body of the while loop for the result of exec: it returns a value
\* or leaves lastIndex for the next iteration.  A failed exec resets
\* lastIndex to 0.
LoopBody(matcher, s, match) ==
  IF ~match.found
    THEN [returned |-> TRUE, value |-> FALSE, lastIndex |-> 0, found |-> FALSE]
  ELSE IF NoNegativeMatches(matcher.negatives, Slice(s, match.index, match.end))
    THEN [returned |-> TRUE, value |-> TRUE, lastIndex |-> match.end, found |-> TRUE]
  ELSE [returned |-> FALSE, value |-> FALSE, lastIndex |-> Advanced(match),
        found |-> TRUE]

\* one iteration of the while loop, the loop condition included
LoopIteration(matcher, s, lastIndex) ==
  LoopBody(matcher, s, GlobalExec(matcher, s, lastIndex))

\* the while loop from lastIndex on: the value test returns
RECURSIVE LoopResult(_, _, _)
LoopFrom(matcher, s, it) ==
  IF it.returned THEN it.value ELSE LoopResult(matcher, s, it.lastIndex)

LoopResult(matcher, s, lastIndex) ==
  LoopFrom(matcher, s, LoopIteration(matcher, s, lastIndex))

\* matcher.test(s) of a matcher that is not null
TestResult(matcher, s) ==
  IF matcher.kind = "regexp" THEN RegExpTest(matcher.source, s)
  ELSE IF matcher.anchored THEN AnchoredTest(matcher, s)
  ELSE LoopResult(matcher, s, 0)

---------------------------------------------------------------------------
(* Input sets.                                                             *)

StringsUpTo(alphabet, n) == UNION {[1..k -> alphabet] : k \in 0..n}

\* literal alternatives of a negation group
Words == StringsUpTo({"a", "b"}, MaxWordLen) \cup {<<"a", "/", "b">>}

\* literal text after a negation group
Suffixes == {<< >>, <<".">>, <<"a">>, <<"/", "a">>}

\* the alternatives of one negation group: one word or two
AlternativeLists ==
  {<<w>> : w \in Words}
  \cup {<<w, v>> : w \in {<<"a">>, <<"a", "b">>}, v \in {<<"b">>, <<"a", "a">>}}

RECURSIVE JoinBar(_)
JoinBar(ws) ==
  IF Len(ws) = 0 THEN << >>
  ELSE IF Len(ws) = 1 THEN ws[1]
  ELSE ws[1] \o <<"|">> \o JoinBar(Tail(ws))

\* !(w1|...|wn)s
NegationSuffixGlob(ws, s) == <<"!", "(">> \o JoinBar(ws) \o <<")">> \o s

NegationSuffixGlobs ==
  {NegationSuffixGlob(ws, s) : ws \in AlternativeLists, s \in Suffixes}

SecondWords == {<< >>, <<"b">>, <<"a", "b">>}

\* !(w)/!(v)
NegationPairGlob(w, v) ==
  <<"!", "(">> \o w \o <<")", "/", "!", "(">> \o v \o <<")">>

NegationPairGlobs == {NegationPairGlob(w, v) : w \in Words, v \in SecondWords}

\* negation groups in a path, next to wildcards, nested and unmatched
NegationPathGlobs ==
  { <<"a", "/", "!", "(", "b", ")", "/", "*">>,
    <<"*", "!", "(", "a", ")">>,
    <<"!", "(", "a", ")", "*">>,
    <<"!", "(", "a", ")", "?">>,
    <<"!", "(", "a", "*", ")">>,
    <<"!", "(", "a", "!", "(", "b", ")", ")">>,
    <<"!", "(", "!", "(", "a", ")">>,
    <<"!", "(", "}", ")">>,
    <<"!", "(", "a", ")", "b", "!", "(", "[", ")">>,
    <<"{", "!", "(", "a", "}", ")">>,
    <<"!", "(", "a", ")", "[">> }

\* groups that do not nest properly and still compile
MalformedGlobs ==
  { <<"@", "(", "}", "|">>,
    <<"@", "(", "}", "|", "a">>,
    <<"!", "(", "a", ")", "@", "(", "}", "|">>,
    <<"@", "(", "}", "|", "a", "!", "(", "b", ")">> }

NegationGlobs ==
  NegationSuffixGlobs \cup NegationPairGlobs \cup NegationPathGlobs \cup MalformedGlobs

\* longer globs without a closing brace or parenthesis, and with a range
\* out of order
UnbalancedGlobs ==
  { <<"?", "(", "a">>, <<"+", "(", "a", "|", "b">>, <<"{", "a", ",", "b">>,
    <<"[", "b", "-", "a", "]">> }

Candidates == StringsUpTo({"a", "b", ".", "/"}, MaxCandLen)

\* literal text before and after a wildcard or a group
Befores == {<< >>, <<"a">>}

Afters == {<< >>, <<".">>, <<".", "a">>}

\* l*r and l?r
WildcardGlob(l, w, r) == l \o <<w>> \o r

WildcardGlobs == {WildcardGlob(l, w, r) : l \in Befores, w \in {"*", "?"}, r \in Afters}

\* what follows the globstar: a literal or a pattern
Rests == {<<"b">>, <<".", "a">>, <<"*">>, <<"*", ".">>}

\* p/**/r, and **/r for an empty p
GlobstarGlob(p, r) ==
  (IF p = << >> THEN << >> ELSE p \o <<"/">>) \o <<"*", "*", "/">> \o r

GlobstarGlobs == {GlobstarGlob(p, r) : p \in Befores, r \in Rests}

GroupWords == {<<<<"b">>>>, <<<<"a", "b">>>>, <<<<"b">>, <<".">>>>, <<<<"b", "a">>, <<"b">>>>}

\* lX(w1|...|wn)r
ExtglobGlob(l, x, ws, r) == l \o <<x, "(">> \o JoinBar(ws) \o <<")">> \o r

ExtglobGlobs ==
  {ExtglobGlob(l, x, ws, r) :
     l \in Befores, x \in {"?", "*", "+", "@"}, ws \in GroupWords, r \in {<< >>, <<"a">>}}

PlainGlobs == WildcardGlobs \cup GlobstarGlobs \cup ExtglobGlobs

\* paths of up to MaxSegments + 1 segments
RECURSIVE PathsOf(_)
PathsOf(n) ==
  IF n = 0 THEN {<<"a">>, <<"b">>, <<".", "a">>, <<"a", ".">>}
  ELSE PathsOf(n - 1) \cup {seg \o <<"/">> \o path : seg \in {<<"a">>, <<"b">>}, path \in PathsOf(n - 1)}

PlainCandidates ==
  StringsUpTo({"a", "b", ".", "/", BSL}, MaxCandLen) \cup PathsOf(MaxSegments)

\* literal alternatives of a brace group
BraceWords == {<<"a">>, <<"b">>, <<"a", "b">>, <<".">>}

\* what stands before and after a brace group: nothing, literals and
\* wildcards, an extglob group, a negation group, a character class, an
\* escape, and an enclosing brace group
BraceContexts ==
  { <<<< >>, << >>>>,
    <<<<"*", ".">>, << >>>>,
    <<<<"a">>, <<"b">>>>,
    <<<<"?">>, <<"/", "*">>>>,
    <<<<"?", "(">>, <<")">>>>,
    <<<<"@", "(", "a", "|">>, <<")", "b">>>>,
    <<<<"+", "(">>, <<")">>>>,
    <<<<"!", "(">>, <<")">>>>,
    <<<<"!", "(", "a", ")">>, << >>>>,
    <<<<"[">>, <<"]">>>>,
    <<<<BSL>>, << >>>>,
    <<<<"{", "b", ",">>, <<"}">>>>,
    <<<<"{">>, <<",", "b", "}">>>> }

\* p{a,b}s
BraceGlob(p, a, b, s) == p \o <<"{">> \o a \o <<",">> \o b \o <<"}">> \o s

BraceGlobs ==
  {BraceGlob(c[1], a, b, c[2]) : c \in BraceContexts, a \in BraceWords, b \in BraceWords}

BraceCandidates ==
  Candidates \cup {<<"{">>, <<",">>, <<"a", ",", "b">>, <<"{", "a", ",", "b", "}">>,
                   <<"a", ",", "b", "}">>, <<"b", ",", "b">>}

\* globs compiled twice
CallGlobs ==
  WildcardGlobs \cup ExtglobGlobs \cup NegationPathGlobs \cup UnbalancedGlobs
  \cup {BraceGlob(<<"*", ".">>, a, b, << >>) : a \in BraceWords, b \in BraceWords}
  \cup {<< >>, <<"a", ",", "b">>, <<"a", ")", "b">>, <<"a", "|", "b">>, <<"a", "]">>, <<"!", "a">>}

\* globs of the calls in between: they end inside a class, inside braces
\* and inside one and two groups, or outside all of them
OtherGlobs ==
  { <<"a">>, <<"[", "a">>, <<"{", "a">>, <<"@", "(", "a">>, <<"*", "(", "+", "(">>,
    <<"{", "a", ",", "b", "}">>, <<"!", "(", "a", ")">> }

CallCandidates ==
  StringsUpTo({"a", "b", "."}, 2)
  \cup {<<"a", ".", "b">>, <<"a", ",", "b">>, <<"a", "/", "b">>, <<"a", ")", "b">>,
        <<"a", "|", "b">>, <<"a", "]">>, <<"!", "a">>, <<"!", "(", "b">>}

\* letters and the characters that mean something in a regular expression
\* and nothing in a glob
LiteralAlphabet == {"a", ".", "|", "+", "$", "^", "(", ")", "/", "-", "!"}

\* g has no extglob opener and no negation group
NoGroup(g) ==
  /\ \A k \in 1..Len(g) - 1 : ~(g[k] = "+" /\ g[k + 1] = "(")
  /\ Len(extractNegatedGlobs(g)) = 0

LiteralGlobs ==
  {g \in StringsUpTo(LiteralAlphabet, MaxLiteralLen) : NoGroup(g)}
  \cup { <<"a", ".", "b">>, <<"a", "!", ".", "b">>, <<"a", "|", "b">>, <<"(", "a", ")">>,
         <<"^", "a", "$">>, <<"a", "-", "b", "/", "a">>, <<"a", "!", "(", "b">>,
         <<"a", ")", "+">> }

\* g with its k-th character replaced by c, and without it
Replaced(g, k, c) == [g EXCEPT ![k] = c]

Removed(g, k) == SubSeq(g, 1, k - 1) \o SubSeq(g, k + 1, Len(g))

\* g itself and strings next to it
NearMisses(g) ==
  {g, << >>, <<"a">>}
  \cup {Replaced(g, k, c) : k \in 1..Len(g), c \in {"a", "b"}}
  \cup {Removed(g, k) : k \in 1..Len(g)}
  \cup {g \o <<c>> : c \in {"a", "/"}}
  \cup {<<c>> \o g : c \in {"a", "/"}}

\* the characters put after a backslash: the ones with a meaning in a
\* glob, punctuation, and letters
EscapedSyntax ==
  {"*", "?", "[", "]", "{", "}", "(", ")", "!", "|", ",", "+", "@", BSL, ".", "/", "-", "^", "$"}

EscapedLetters == {"a", "b", "B", "d", "w", "s", "n", "t", "x"}

EscapedChars == EscapedSyntax \cup EscapedLetters

\* literal text around the escape
EscapeContexts == {<<<< >>, << >>>>, <<<<"a">>, <<".">>>>, <<<<"x">>, <<"b">>>>}

\* l\xr
EscapeGlob(l, x, r) == l \o <<BSL, x>> \o r

\* [\xa]
EscapeClassGlob(x) == <<"[", BSL, x, "a", "]">>

EscapeGlobs ==
  {EscapeGlob(c[1], x, c[2]) : c \in EscapeContexts, x \in EscapedChars}
  \cup {EscapeClassGlob(x) : x \in EscapedSyntax \cup {"a", "b"}}

EscapeCandidates ==
  {c[1] \o t \o c[2] :
     c \in EscapeContexts,
     t \in {<< >>} \cup {<<x>> : x \in EscapedChars} \cup {<<"a", "a">>, <<BSL, "*">>}}

ClassAlphabet == {"a", "b", "!", ".", "*", "^"}

\* what stands between the brackets
ClassContents == StringsUpTo(ClassAlphabet, MaxClassLen) \ {<< >>}

\* [content]
ClassGlob(content) == <<"[">> \o content \o <<"]">>

ClassGlobs == {ClassGlob(content) : content \in ClassContents}

ClassCandidates ==
  {<<c>> : c \in ClassAlphabet \cup {"/"}} \cup {<< >>, <<"a", "b">>, <<"!", "a">>}

ExtractGlobs == StringsUpTo({"!", "(", ")", "a"}, MaxExtractLen)

\* Globs with one "!(" that nothing closes.  Around it, literal text and
\* wildcards:
UnmatchedPieces == {"a", ".", "*", "?"}

UnmatchedGlob(l, r) == l \o <<"!", "(">> \o r

WildcardUnmatchedGlobs ==
  {UnmatchedGlob(l, r) : l \in {<< >>, <<"a">>, <<"*">>},
                         r \in StringsUpTo(UnmatchedPieces, MaxRestLen)}

\* or a closed group, a brace group, a class or a glob escape, each with the
\* strings the glob stands for when "!" and "(" are read as themselves:
\* !(@(a|b)  {a,.}!(  [ab]!(a  \!(a  !((a)
GroupUnmatchedCases ==
  { [glob |-> <<"!", "(", "@", "(", "a", "|", "b", ")">>,
     reading |-> {<<"!", "(", "a">>, <<"!", "(", "b">>}],
    [glob |-> <<"{", "a", ",", ".", "}", "!", "(">>,
     reading |-> {<<"a", "!", "(">>, <<".", "!", "(">>}],
    [glob |-> <<"[", "a", "b", "]", "!", "(", "a">>,
     reading |-> {<<"a", "!", "(", "a">>, <<"b", "!", "(", "a">>}],
    [glob |-> <<BSL, "!", "(", "a">>,
     reading |-> {<<"!", "(", "a">>}],
    [glob |-> <<"!", "(", "(", "a", ")">>,
     reading |-> {<<"!", "(", "(", "a", ")">>}] }

\* the "!(" within a class, and after a group that nothing closes:
\* [!(]  [a!(]  @(a|!(b  +(!(a
EnclosedUnmatchedCases ==
  { [glob |-> <<"[", "!", "(", "]">>,
     reading |-> {<<"!">>, <<"(">>}],
    [glob |-> <<"[", "a", "!", "(", "]">>,
     reading |-> {<<"a">>, <<"!">>, <<"(">>}],
    [glob |-> <<"@", "(", "a", "|", "!", "(", "b">>,
     reading |-> {}],
    [glob |-> <<"+", "(", "!", "(", "a">>,
     reading |-> {}] }

UnmatchedCases == GroupUnmatchedCases \cup EnclosedUnmatchedCases

UnmatchedGlobs == WildcardUnmatchedGlobs \cup {c.glob : c \in UnmatchedCases}

UnmatchedCandidates ==
  {l \o m \o r : l \in {<< >>, <<"a">>, <<"/">>},
                 m \in {<<"!", "(">>, <<"!">>, <<"(">>, <<"a", "(">>, << >>},
                 r \in StringsUpTo({"a", ".", "/"}, MaxRestLen)}
  \cup UNION {c.reading : c \in UnmatchedCases}

\* Negation globs whose group holds a group of its own, and some that do
\* not:  !(a!(b))  !(!(a))  a!(!(b)).  !(a)!(!(b))  !(a!(b)|b)  and
\* !(a)  !(a|b).a  !(a)!(b)  !(a)@(}|
NestedGlobs ==
  { <<"!", "(", "a", "!", "(", "b", ")", ")">>,
    <<"!", "(", "!", "(", "a", ")", ")">>,
    <<"a", "!", "(", "!", "(", "b", ")", ")", ".">>,
    <<"!", "(", "a", ")", "!", "(", "!", "(", "b", ")", ")">>,
    <<"!", "(", "a", "!", "(", "b", ")", "|", "b", ")">> }

FlatGlobs ==
  { <<"!", "(", "a", ")">>,
    <<"!", "(", "a", "|", "b", ")", ".", "a">>,
    <<"!", "(", "a", ")", "!", "(", "b", ")">>,
    <<"!", "(", "a", ")", "@", "(", "}", "|">> }

NestedCandidates ==
  StringsUpTo({"a", "b", "."}, MaxCandLen)
  \cup {UndefinedText, <<"a">> \o UndefinedText \o <<".">>,
        <<"a", "!", "(", "b", ")">>, <<"!", "(", "a", ")">>}

\* Globs of groups, wildcards, classes and escapes, and longer ones with
\* groups in groups:  @(?(a)|b)  +(*(a))a)  ?(a[)]b)  *(a\)b)  **(a)
ScanAlphabet == {"?", "*", "+", "@", "(", ")", "[", "]", BSL, "a"}

ScanGlobs ==
  StringsUpTo(ScanAlphabet, MaxScanLen)
  \cup { <<"@", "(", "?", "(", "a", ")", "|", "b", ")">>,
         <<"+", "(", "*", "(", "a", ")", ")", "a", ")">>,
         <<"?", "(", "a", "[", ")", "]", "b", ")">>,
         <<"*", "(", "a", BSL, ")", "b", ")">>,
         <<"*", "*", "(", "a", ")">> }

\* Negation globs whose positive pattern matches the empty string, with
\* groups that veto it:  !()  !(|a)  !(*)  !(*)!()  *(a)!(?(a))  and
\* !(a)  a!(a)  !(a)/!()
LoopGlobs ==
  { <<"!", "(", ")">>,
    <<"!", "(", "|", "a", ")">>,
    <<"!", "(", "*", ")">>,
    <<"!", "(", "*", ")", "!", "(", ")">>,
    <<"*", "(", "a", ")", "!", "(", "?", "(", "a", ")", ")">>,
    <<"!", "(", "a", ")">>,
    <<"a", "!", "(", "a", ")">>,
    <<"!", "(", "a", ")", "/", "!", "(", ")">> }

LoopCandidates == StringsUpTo({"a", "/"}, MaxCandLen + 1)

\* Matchers called again and again: native ones and negation objects.
\*  a  a*  *(a)b  !(a)b  !()  a!(a|b)
RepeatGlobs ==
  { <<"a">>, <<"a", "*">>, <<"*", "(", "a", ")", "b">>, <<"!", "(", "a", ")", "b">>,
    <<"!", "(", ")">>, <<"a", "!", "(", "a", "|", "b", ")">> }

\* the other matcher:  b  !(b)
SecondGlobs == { <<"b">>, <<"!", "(", "b", ")">> }

RepeatCandidates == { << >>, <<"a", "b">>, <<"b", "a", "a">> }

\* Negation groups with a wildcard, a parenthesis or another group next to
\* them, and with literal text next to them:
\*  !(a)!(b)  *!(a)  !(a)*  !(a)(b)  !(a)!(b).a  and  a!(b)  !(a).b  !(a)?
AdjacentGlobs ==
  { <<"!", "(", "a", ")", "!", "(", "b", ")">>,
    <<"*", "!", "(", "a", ")">>,
    <<"!", "(", "a", ")", "*">>,
    <<"!", "(", "a", ")", "(", "b", ")">>,
    <<"!", "(", "a", ")", "!", "(", "b", ")", ".", "a">> }

ApartGlobs ==
  { <<"a", "!", "(", "b", ")">>,
    <<"!", "(", "a", ")", ".", "b">>,
    <<"!", "(", "a", ")", "?">> }

NeutralCandidates ==
  StringsUpTo({"a", "b", ".", "/"}, MaxCandLen)
  \cup {<<"a", "(", "b", ")">>, <<"b", "/", "b", ".", "a">>}

\* Brace groups in brace groups and commas outside them, each with the
\* strings it stands for:
\*  {a,{b,c},d}  {{a,b},c}  {a,{b,c}}  {a,b}  a,b  {a,b},c
NestedBraceCases ==
  { [glob |-> <<"{", "a", ",", "{", "b", ",", "c", "}", ",", "d", "}">>,
     expansions |-> {<<"a">>, <<"b">>, <<"c">>, <<"d">>}],
    [glob |-> <<"{", "{", "a", ",", "b", "}", ",", "c", "}">>,
     expansions |-> {<<"a">>, <<"b">>, <<"c">>}],
    [glob |-> <<"{", "a", ",", "{", "b", ",", "c", "}", "}">>,
     expansions |-> {<<"a">>, <<"b">>, <<"c">>}] }

FlatBraceCases ==
  { [glob |-> <<"{", "a", ",", "b", "}">>,
     expansions |-> {<<"a">>, <<"b">>}],
    [glob |-> <<"a", ",", "b">>,
     expansions |-> {<<"a", ",", "b">>}],
    [glob |-> <<"{", "a", ",", "b", "}", ",", "c">>,
     expansions |-> {<<"a", ",", "c">>, <<"b", ",", "c">>}] }

NestedBraceCandidates == StringsUpTo({"a", "b", "c", "d", ","}, MaxCandLen)

\* Negation globs whose positive pattern ends in alternatives of which the
\* first is the shorter, or has an alternation bar outside every group:
\*  !(b)@(a|ab)  !(a)@(|b)  !(a)@(|/a)  {a,ab}!(b)  !(b){a,ab}
\*  @(b}|a!(b)  !(a)@(b}|a
PriorityGlobs ==
  { <<"!", "(", "b", ")", "@", "(", "a", "|", "a", "b", ")">>,
    <<"!", "(", "a", ")", "@", "(", "|", "b", ")">>,
    <<"!", "(", "a", ")", "@", "(", "|", "/", "a", ")">>,
    <<"{", "a", ",", "a", "b", "}", "!", "(", "b", ")">>,
    <<"!", "(", "b", ")", "{", "a", ",", "a", "b", "}">>,
    <<"@", "(", "b", "}", "|", "a", "!", "(", "b", ")">>,
    <<"!", "(", "a", ")", "@", "(", "b", "}", "|", "a">> }

ImplyGlobs ==
  NegationGlobs \cup NestedGlobs \cup AdjacentGlobs \cup ApartGlobs \cup LoopGlobs
  \cup PriorityGlobs

ImplyCandidates == Candidates \cup {UndefinedText, <<"a", "/", "a", "b">>}

\* Globs whose "!(" is quoted, by a backslash or by a character class:
\*  \!(a)  a\!(b)  [!(a)]  [a!(b)]  \!(a)b!(a)
QuotedGlobs ==
  { <<BSL, "!", "(", "a", ")">>,
    <<"a", BSL, "!", "(", "b", ")">>,
    <<"[", "!", "(", "a", ")", "]">>,
    <<"[", "a", "!", "(", "b", ")", "]">>,
    <<BSL, "!", "(", "a", ")", "b", "!", "(", "a", ")">> }

QuotedCandidates ==
  StringsUpTo({"!", "(", ")", "a", "*"}, MaxCandLen + 1) \cup {<<"a", "!", "(", "b", ")">>}

ShortAlphabet == {"a", "b", "*", "@", "!", "(", ")", "[", "]", "{", "}", "|", BSL, "/"}

\* every glob of up to MaxShortLen characters
ShortGlobs ==
  StringsUpTo(ShortAlphabet, MaxShortLen) \cup MalformedGlobs \cup UnbalancedGlobs

ShortCandidates ==
  {<< >>, <<"a">>, <<"b">>, <<"/">>, <<"a", "b">>, <<"b", "a">>, <<"a", "/", "b">>}

---------------------------------------------------------------------------
(* The program: one compile call and then a test call on the matcher it   *)
(* returned.                                                               *)

\* second is what a second call with the same arguments returns,
\* scanState the locals of the translator as the last other call left them,
\* and negations what a call of extractNegatedGlobs returns
\* expandIndex and variant are the last argument and the result of a call
\* of buildGlobVariant, and occurrences counts the matches that exec has
\* found in the running call of test.  nativeLastIndex and secondLastIndex
\* are the lastIndex property of matcher and of second when they are
\* regular expressions; answers and secondAnswers hold the candidate and
\* the result of every earlier call of their test
VARIABLES glob, anchored, matcher, pc, str, lastIndex, result, second, scanState,
          negations, expandIndex, variant, occurrences, nativeLastIndex,
          secondLastIndex, answers, secondAnswers

\* what calls of test keep from one call to the next
repeated == <<nativeLastIndex, secondLastIndex, answers, secondAnswers>>

vars ==
  <<glob, anchored, matcher, pc, str, lastIndex, result, second, scanState, negations,
    expandIndex, variant, occurrences, nativeLastIndex, secondLastIndex, answers,
    secondAnswers>>

InitWith(globs) ==
  /\ glob \in globs
  /\ anchored \in BOOLEAN
  /\ matcher = NullMatcher
  /\ pc = "start"
  /\ str = << >>
  /\ lastIndex = 0
  /\ result = "none"
  /\ second = NullMatcher
  /\ scanState = ScanInit
  /\ negations = << >>
  /\ expandIndex = -1
  /\ variant = << >>
  /\ occurrences = 0
  /\ nativeLastIndex = 0
  /\ secondLastIndex = 0
  /\ answers = {}
  /\ secondAnswers = {}

Bool(b) == IF b THEN "true" ELSE "false"

\* convertGlobToRegex(glob, anchored)
Compile ==
  /\ pc = "start"
  /\ matcher' = convertGlobToRegex(glob, anchored)
  /\ pc' = "compiled"
  /\ UNCHANGED <<glob, anchored, str, lastIndex, result, second, scanState, negations,
                 expandIndex, variant, occurrences, repeated>>

\* the result of a native test and the lastIndex it leaves
NativeUpdate(r) ==
  /\ result' = Bool(r.value)
  /\ nativeLastIndex' = r.lastIndex
  /\ pc' = "done"

\* matcher.test(s): the native test, the anchored branch, or the entry of
\* the unanchored branch (const globalRe = new RegExp(..., 'g'))
Test(s) ==
  /\ pc = "compiled"
  /\ matcher.kind \in {"regexp", "negation"}
  /\ str' = s
  /\ lastIndex' = 0
  /\ IF matcher.kind = "regexp"
       THEN NativeUpdate(NativeTest(matcher.source, NativeFlags, s, nativeLastIndex))
     ELSE IF matcher.anchored
       THEN result' = Bool(AnchoredTest(matcher, s)) /\ pc' = "done"
                      /\ UNCHANGED nativeLastIndex
     ELSE result' = "none" /\ pc' = "loop" /\ UNCHANGED nativeLastIndex
  /\ occurrences' = 0
  /\ UNCHANGED <<glob, anchored, matcher, second, scanState, negations, expandIndex,
                 variant, secondLastIndex, answers,
                 secondAnswers>>

LoopUpdate(it) ==
  /\ lastIndex' = it.lastIndex
  /\ result' = IF it.returned THEN Bool(it.value) ELSE "none"
  /\ pc' = IF it.returned THEN "done" ELSE "loop"
  /\ occurrences' = IF it.found THEN occurrences + 1 ELSE occurrences

\* one iteration of while ((match = globalRe.exec(str)) !== null)
Loop ==
  /\ pc = "loop"
  /\ occurrences <= Len(str) + 1
  /\ LoopUpdate(LoopIteration(matcher, str, lastIndex))
  /\ UNCHANGED <<glob, anchored, matcher, str, second, scanState, negations,
                 expandIndex, variant, repeated>>

\* another call convertGlobToRegex(g, a) between the two: its translator
\* run, whose result the caller drops
CompileOther(g) ==
  /\ pc = "compiled"
  /\ scanState' = ScanRun(g, FreshScan(scanState))
  /\ UNCHANGED <<glob, anchored, matcher, pc, str, lastIndex, result, second,
                 negations, expandIndex, variant, occurrences, repeated>>

\* the second call convertGlobToRegex(glob, anchored)
CompileAgain ==
  /\ pc = "compiled"
  /\ second' = CompileFrom(glob, anchored, FreshScan(scanState))
  /\ pc' = "again"
  /\ UNCHANGED <<glob, anchored, matcher, str, lastIndex, result, scanState, negations,
                 expandIndex, variant, occurrences, repeated>>

\* a call extractNegatedGlobs(glob)
Extract ==
  /\ pc = "start"
  /\ negations' = extractNegatedGlobs(glob)
  /\ pc' = "extracted"
  /\ UNCHANGED <<glob, anchored, matcher, str, lastIndex, result, second, scanState,
                 expandIndex, variant, occurrences, repeated>>

\* a call buildGlobVariant(glob, negations, e) on the extractor's result
BuildVariant(e) ==
  /\ pc = "extracted"
  /\ e \in -1..Len(negations) - 1
  /\ expandIndex' = e
  /\ variant' = buildGlobVariant(glob, negations, e)
  /\ pc' = "built"
  /\ UNCHANGED <<glob, anchored, matcher, str, lastIndex, result, second, scanState,
                 negations, occurrences, repeated>>

\* one iteration of the for loop of convertGlobToRegexString(glob)
ScanIteration ==
  /\ pc \in {"start", "scanning"}
  /\ scanState.i < Len(glob)
  /\ scanState' = ScanStep(glob, scanState)
  /\ pc' = "scanning"
  /\ UNCHANGED <<glob, anchored, matcher, str, lastIndex, result, second, negations,
                 expandIndex, variant, occurrences, repeated>>

\* a later call matcher.test(s) on the same matcher, after the call for
\* str has returned result
TestNext(s) ==
  /\ pc = "done"
  /\ answers' = answers \cup {<<str, result>>}
  /\ str' = s
  /\ lastIndex' = 0
  /\ IF matcher.kind = "regexp"
       THEN NativeUpdate(NativeTest(matcher.source, NativeFlags, s, nativeLastIndex))
     ELSE IF matcher.anchored
       THEN result' = Bool(AnchoredTest(matcher, s)) /\ pc' = "done"
                      /\ UNCHANGED nativeLastIndex
     ELSE result' = "none" /\ pc' = "loop" /\ UNCHANGED nativeLastIndex
  /\ occurrences' = 0
  /\ UNCHANGED <<glob, anchored, matcher, second, scanState, negations, expandIndex,
                 variant, secondLastIndex, secondAnswers>>

\* another matcher: second = convertGlobToRegex(g, anchored)
CompileSecond(g) ==
  /\ pc = "compiled"
  /\ second = NullMatcher
  /\ second' = convertGlobToRegex(g, anchored)
  /\ UNCHANGED <<glob, anchored, matcher, pc, str, lastIndex, result, scanState,
                 negations, expandIndex, variant, occurrences, repeated>>

\* second.test(s), to its return
SecondTest(s) ==
  IF second.kind = "regexp"
    THEN NativeTest(second.source, NativeFlags, s, secondLastIndex)
  ELSE [value |-> TestResult(second, s), lastIndex |-> secondLastIndex]

SecondUpdate(s, r) ==
  /\ secondAnswers' = secondAnswers \cup {<<s, Bool(r.value)>>}
  /\ secondLastIndex' = r.lastIndex

\* a call second.test(s) between two calls of matcher.test
TestSecond(s) ==
  /\ pc = "done"
  /\ second.kind \in {"regexp", "negation"}
  /\ SecondUpdate(s, SecondTest(s))
  /\ UNCHANGED <<glob, anchored, matcher, pc, str, lastIndex, result, second,
                 scanState, negations, expandIndex, variant, occurrences,
                 nativeLastIndex, answers>>

Init == InitWith(NegationGlobs)

Next == Compile \/ (\E s \in Candidates : Test(s)) \/ Loop

Spec == Init /\ [][Next]_vars

\* globs without negation groups
InitPlain == InitWith(PlainGlobs)

NextPlain == Compile \/ (\E s \in PlainCandidates : Test(s))

SpecPlain == InitPlain /\ [][NextPlain]_vars

\* globs with a brace group
InitBrace == InitWith(BraceGlobs)

NextBrace == Compile \/ (\E s \in BraceCandidates : Test(s)) \/ Loop

SpecBrace == InitBrace /\ [][NextBrace]_vars

\* two calls with the same arguments and other calls in between
InitCalls == InitWith(CallGlobs)

NextCalls == Compile \/ (\E g \in OtherGlobs : CompileOther(g)) \/ CompileAgain

SpecCalls == InitCalls /\ [][NextCalls]_vars

\* globs of literal text
InitLiteral == InitWith(LiteralGlobs)

NextLiteral == Compile \/ (\E s \in NearMisses(glob) : Test(s))

SpecLiteral == InitLiteral /\ [][NextLiteral]_vars

\* globs with an escape
InitEscape == InitWith(EscapeGlobs)

NextEscape == Compile \/ (\E s \in EscapeCandidates : Test(s))

SpecEscape == InitEscape /\ [][NextEscape]_vars

\* globs that are one character class
InitClass == InitWith(ClassGlobs)

NextClass == Compile \/ (\E s \in ClassCandidates : Test(s))

SpecClass == InitClass /\ [][NextClass]_vars

\* the extractor on every string of "!", parentheses and a letter
InitExtract == InitWith(ExtractGlobs) /\ ~anchored

NextExtract == Extract

SpecExtract == InitExtract /\ [][NextExtract]_vars

\* globs with a "!(" that nothing closes
InitUnmatched == InitWith(UnmatchedGlobs)

NextUnmatched == Compile \/ (\E s \in UnmatchedCandidates : Test(s))

SpecUnmatched == InitUnmatched /\ [][NextUnmatched]_vars

\* the variant builder on the extractor's result, for every expandIndex
NextVariant == Extract \/ (\E e \in -1..MaxExtractLen : BuildVariant(e))

SpecVariant == InitExtract /\ [][NextVariant]_vars

\* negation groups within negation groups
InitNested == InitWith(NestedGlobs \cup FlatGlobs)

NextNested == Compile \/ (\E s \in NestedCandidates : Test(s)) \/ Loop

SpecNested == InitNested /\ [][NextNested]_vars

\* the translator's loop, one iteration at a time
InitScan == InitWith(ScanGlobs) /\ ~anchored

NextScan == ScanIteration

SpecScan == InitScan /\ [][NextScan]_vars

\* the occurrence loop of the unanchored test
InitLoop == InitWith(LoopGlobs) /\ ~anchored

NextLoop == Compile \/ (\E s \in LoopCandidates : Test(s)) \/ Loop

SpecLoop == InitLoop /\ [][NextLoop]_vars

\* Loop as pc and occurrences show it: it is enabled exactly when Loop is,
\* and every step of Loop returns or counts one more occurrence
LoopStep ==
  /\ pc = "loop"
  /\ occurrences <= Len(str) + 1
  /\ \/ pc' = "done" /\ occurrences' \in {occurrences, occurrences + 1}
     \/ pc' = "loop" /\ occurrences' = occurrences + 1

\* the same when a call that has started goes on: test runs to its end
\* once called
SpecLoopFair == SpecLoop /\ WF_<<pc, occurrences>>(LoopStep)

\* one matcher called several times, and a second matcher in between
InitRepeat == InitWith(RepeatGlobs)

NextRepeat ==
  \/ Compile
  \/ \E g \in SecondGlobs : CompileSecond(g)
  \/ \E s \in RepeatCandidates : Test(s) \/ TestNext(s) \/ TestSecond(s)
  \/ Loop

SpecRepeat == InitRepeat /\ [][NextRepeat]_vars

\* negation groups and what stands next to them
InitNeutral == InitWith(AdjacentGlobs \cup ApartGlobs)

NextNeutral == Compile \/ (\E s \in NeutralCandidates : Test(s)) \/ Loop

SpecNeutral == InitNeutral /\ [][NextNeutral]_vars

\* brace groups in brace groups
InitNestedBrace == InitWith({c.glob : c \in NestedBraceCases \cup FlatBraceCases})

NextNestedBrace == Compile \/ (\E s \in NestedBraceCandidates : Test(s))

SpecNestedBrace == InitNestedBrace /\ [][NextNestedBrace]_vars

\* negation globs of every kind above, in both modes
InitImply == InitWith(ImplyGlobs)

NextImply == Compile \/ (\E s \in ImplyCandidates : Test(s)) \/ Loop

SpecImply == InitImply /\ [][NextImply]_vars

\* a quoted "!("
InitQuoted == InitWith(QuotedGlobs)

NextQuoted == Compile \/ (\E s \in QuotedCandidates : Test(s)) \/ Loop

SpecQuoted == InitQuoted /\ [][NextQuoted]_vars

\* all short globs
InitShort == InitWith(ShortGlobs)

NextShort == Compile \/ (\E s \in ShortCandidates : Test(s)) \/ Loop

SpecShort == InitShort /\ [][NextShort]_vars

---------------------------------------------------------------------------
(* What the properties are stated with.                                    *)

SeparatorFree(u) == \A k \in 1..Len(u) : u[k] # "/" /\ u[k] # BSL

Prefix(s, n) == SubSeq(s, 1, n)

Suffix(s, n) == SubSeq(s, Len(s) - n + 1, Len(s))

\* s = u \o suffix for a separator-free u that Other(u) holds of
EndsWithAfter(s, suffix, Other(_)) ==
  /\ Len(s) >= Len(suffix)
  /\ Suffix(s, Len(suffix)) = suffix
  /\ SeparatorFree(Prefix(s, Len(s) - Len(suffix)))
  /\ Other(Prefix(s, Len(s) - Len(suffix)))

SetOf(seq) == {seq[k] : k \in 1..Len(seq)}

\* the text of a pattern given by a .source value
PatternText(source) == IF source.defined THEN source.text ELSE UndefinedText

\* the pattern has a match that starts at 0 and ends at the end of s
MatchesEntire(pattern, s) == Len(s) \in SetOf(Ends(ParsePattern(pattern).node, s, 0))

\* the occurrences of the pattern in s that repeated global search finds:
\* each search starts where the last occurrence ended, one further on
\* after an empty occurrence
RECURSIVE OccurrencesFrom(_, _, _)
OccurrencesFrom(node, s, from) ==
  LET match == ExecFrom(node, s, from)
  IN IF ~match.found THEN << >>
     ELSE <<Slice(s, match.index, match.end)>>
          \o OccurrencesFrom(node, s,
               IF match.end = match.index THEN match.end + 1 ELSE match.end)

Occurrences(pattern, s) == OccurrencesFrom(ParsePattern(pattern).node, s, 0)

Tested == pc = "done"

---------------------------------------------------------------------------
(* C2.  For a glob !(w1|...|wn)s with literal alternatives and a literal   *)
(* suffix the matcher rejects every wi s and accepts every u s with u      *)
(* separator-free and different from all wi.                               *)

NegationSuffixCase(ws, s) ==
  /\ (\E k \in 1..Len(ws) : str = ws[k] \o s) => result = "false"
  /\ LET Other(u) == \A k \in 1..Len(ws) : u # ws[k]
     IN EndsWithAfter(str, s, Other) => result = "true"

---------------------------------------------------------------------------
(* C3.  For !(a)/!(b) a two-segment candidate x/y is accepted iff x        *)
(* differs from a and y differs from b.                                    *)

C3_NegationsVetoIndependently ==
  Tested =>
    \A w \in Words, v \in SecondWords :
      glob = NegationPairGlob(w, v) =>
        \A n \in 0..Len(str) - 1 :
          LET x == Prefix(str, n)
              y == Suffix(str, Len(str) - n - 1)
          IN (str[n + 1] = "/" /\ SeparatorFree(x) /\ SeparatorFree(y))
               => result = Bool(x # w /\ y # v)

\* unanchored !(a)/!(b) has rejected a/a: the first segment alone vetoes
C3_Witness ==
  /\ Tested
  /\ ~anchored
  /\ glob = NegationPairGlob(<<"a">>, <<"b">>)
  /\ str = <<"a", "/", "a">>
  /\ result = "false"

---------------------------------------------------------------------------
(* C4.  The anchored negation matcher accepts a candidate iff the positive *)
(* pattern matches the entire candidate and no exclusion pattern matches   *)
(* the entire candidate.                                                   *)

C4_AnchoredNegationMatcher ==
  (Tested /\ matcher.kind = "negation" /\ matcher.anchored) =>
    result = Bool(/\ MatchesEntire(PatternText(matcher.positive), str)
                  /\ \A k \in 1..Len(matcher.negatives) :
                       ~MatchesEntire(PatternText(matcher.negatives[k]), str))

---------------------------------------------------------------------------
(* C5.  The unanchored negation matcher accepts a candidate iff one of the *)
(* occurrences of the positive pattern that repeated global search finds   *)
(* is matched in its entirety by no exclusion pattern.                     *)

C5_UnanchoredNegationMatcher ==
  (Tested /\ matcher.kind = "negation" /\ ~matcher.anchored) =>
    result = Bool(\E occurrence \in SetOf(Occurrences(PatternText(matcher.positive), str)) :
                    \A k \in 1..Len(matcher.negatives) :
                      ~MatchesEntire(PatternText(matcher.negatives[k]), occurrence))

---------------------------------------------------------------------------
(* C8.  For l*r and l?r with literal l and r the anchored matcher accepts  *)
(* a candidate iff it is l, a run of characters other than "/" and "\",    *)
(* and r, the run of "?" being exactly one character; the unanchored       *)
(* matcher accepts iff the candidate has such a substring.                 *)

Substrings(s) == {SubSeq(s, i, j) : i \in 1..Len(s) + 1, j \in 0..Len(s)}

WildcardRun(w, run) == SeparatorFree(run) /\ (w = "?" => Len(run) = 1)

WildcardAccepts(l, w, r, s) ==
  \E i \in 0..Len(s) : \E j \in i..Len(s) :
    /\ Prefix(s, i) = l
    /\ WildcardRun(w, SubSeq(s, i + 1, j))
    /\ Suffix(s, Len(s) - j) = r

C8_WildcardsStayInSegment ==
  Tested =>
    \A l \in Befores, w \in {"*", "?"}, r \in Afters :
      glob = WildcardGlob(l, w, r) =>
        result = Bool(IF anchored THEN WildcardAccepts(l, w, r, str)
                      ELSE \E sub \in Substrings(str) : WildcardAccepts(l, w, r, sub))

\* anchored *. has rejected a/.
C8_Witness ==
  /\ Tested
  /\ anchored
  /\ glob = WildcardGlob(<< >>, "*", <<".">>)
  /\ str = <<"a", "/", ".">>
  /\ result = "false"

---------------------------------------------------------------------------
(* C9.  For p/**/r, and **/r, with a literal p the anchored matcher        *)
(* accepts a candidate iff it is p/, any text, and a match of r; the text  *)
(* may be empty or any number of segments, each followed by "/".           *)

RestAccepts(r, x) ==
  IF r[1] = "*"
    THEN LET AnyRun(u) == TRUE IN EndsWithAfter(x, Tail(r), AnyRun)
  ELSE x = r

GlobstarAccepts(p, r, s) ==
  \E i \in 0..Len(s) : \E j \in i..Len(s) :
    /\ Prefix(s, i) = (IF p = << >> THEN << >> ELSE p \o <<"/">>)
    /\ RestAccepts(r, Suffix(s, Len(s) - j))

C9_GlobstarCrossesSegments ==
  (Tested /\ anchored) =>
    \A p \in Befores, r \in Rests :
      glob = GlobstarGlob(p, r) => result = Bool(GlobstarAccepts(p, r, str))

\* anchored a/**/b has accepted a/b/a/b: two segments in between
C9_Witness ==
  /\ Tested
  /\ anchored
  /\ glob = GlobstarGlob(<<"a">>, <<"b">>)
  /\ str = <<"a", "/", "b", "/", "a", "/", "b">>
  /\ result = "true"

---------------------------------------------------------------------------
(* C10.  For lX(w1|...|wn)r with literal l, r and alternatives the         *)
(* anchored matcher accepts a candidate iff it is l, then n alternatives,  *)
(* then r, with n in 0..1 for ?, n >= 0 for *, n >= 1 for + and n = 1     *)
(* for @.                                                                  *)

RECURSIVE Repeats(_, _, _)
Repeats(ws, t, n) ==
  IF n = 0 THEN t = << >>
  ELSE \E k \in 1..Len(ws) :
         /\ Len(t) >= Len(ws[k])
         /\ Prefix(t, Len(ws[k])) = ws[k]
         /\ Repeats(ws, Suffix(t, Len(t) - Len(ws[k])), n - 1)

Counts(x, t) ==
  CASE x = "?" -> 0..1
    [] x = "*" -> 0..Len(t)
    [] x = "+" -> 1..Len(t)
    [] x = "@" -> {1}

ExtglobAccepts(l, x, ws, r, s) ==
  \E i \in 0..Len(s) : \E j \in i..Len(s) :
    /\ Prefix(s, i) = l
    /\ Suffix(s, Len(s) - j) = r
    /\ \E n \in Counts(x, SubSeq(s, i + 1, j)) : Repeats(ws, SubSeq(s, i + 1, j), n)

C10_ExtglobQuantifiers ==
  (Tested /\ anchored) =>
    \A l \in Befores, x \in {"?", "*", "+", "@"}, ws \in GroupWords, r \in {<< >>, <<"a">>} :
      glob = ExtglobGlob(l, x, ws, r) => result = Bool(ExtglobAccepts(l, x, ws, r, str))

\* anchored a?(b) has rejected abb: the group is not repeated
C10_Witness ==
  /\ Tested
  /\ anchored
  /\ glob = ExtglobGlob(<<"a">>, "?", <<<<"b">>>>, << >>)
  /\ str = <<"a", "b", "b">>
  /\ result = "false"

---------------------------------------------------------------------------
(* C1.  convertGlobToRegex returns null or a matcher, no exception leaves  *)
(* it, and it returns null when the negation path yields nothing and the   *)
(* translation of the glob is rejected by new RegExp.                      *)

Rejected(regexString) == ~NewRegExp(regexString).ok

C1_NeverThrows ==
  pc # "start" =>
    /\ matcher.kind \in {"null", "regexp", "negation"}
    /\ (/\ convertGlobNegationsToRegex(glob, anchored).kind = "null"
        /\ Rejected(convertGlobToRegexString(glob, anchored)))
         => matcher.kind = "null"

\* [a has been compiled to null
C1_Witness ==
  /\ pc = "compiled"
  /\ glob = <<"[", "a">>
  /\ Rejected(convertGlobToRegexString(glob, anchored))
  /\ matcher.kind = "null"

---------------------------------------------------------------------------
(* C6.  For a glob without "!(" that compiles, the anchored matcher        *)
(* accepts a candidate only when the pattern matches the entire candidate, *)
(* and the unanchored matcher accepts a candidate iff the anchored matcher *)
(* accepts one of its substrings.                                          *)

NoNegationText(g) == \A k \in 1..Len(g) - 1 : ~(g[k] = "!" /\ g[k + 1] = "(")

Compiles(g) ==
  /\ convertGlobToRegex(g, TRUE).kind = "regexp"
  /\ convertGlobToRegex(g, FALSE).kind = "regexp"

C6_AnchoringOnly ==
  (Tested /\ NoNegationText(glob) /\ Compiles(glob)) =>
    IF anchored
      THEN result = "true" => MatchesEntire(convertGlobToRegexString(glob, FALSE), str)
    ELSE result = Bool(\E sub \in Substrings(str) :
                         RegExpTest(convertGlobToRegexString(glob, TRUE), sub))

---------------------------------------------------------------------------
(* C7.  For a glob without "!(" convertGlobToRegex returns null with       *)
(* anchored = false exactly when it returns null with anchored = true.     *)

C7_NullInBothModes ==
  (pc = "compiled" /\ NoNegationText(glob)) =>
    (matcher.kind = "null") = (convertGlobToRegex(glob, ~anchored).kind = "null")

---------------------------------------------------------------------------
(* C11.  The matcher of p{a,b}s with literal a and b accepts a candidate   *)
(* iff the matcher of pas or the matcher of pbs, compiled in the same      *)
(* mode, accepts it.                                                       *)

\* convertGlobToRegex(g, mode).test(s), false for null
Accepts(g, mode, s) ==
  LET compiled == convertGlobToRegex(g, mode)
  IN compiled.kind # "null" /\ TestResult(compiled, s)

BraceUnion(p, a, b, s) ==
  result = Bool(Accepts(p \o a \o s, anchored, str) \/ Accepts(p \o b \o s, anchored, str))

PlainBraceContexts ==
  { <<<< >>, << >>>>,
    <<<<"*", ".">>, << >>>>,
    <<<<"a">>, <<"b">>>>,
    <<<<"?">>, <<"/", "*">>>>,
    <<<<"?", "(">>, <<")">>>>,
    <<<<"@", "(", "a", "|">>, <<")", "b">>>>,
    <<<<"{", "b", ",">>, <<"}">>>> }

---------------------------------------------------------------------------
(* C12.  Two calls of convertGlobToRegex with the same arguments, with any *)
(* other calls in between, both return null or return matchers whose test  *)
(* gives the same answer on every candidate.                               *)

SameBehaviour(first, other) ==
  IF first.kind = "null" \/ other.kind = "null"
    THEN first.kind = other.kind
  ELSE \A s \in CallCandidates : TestResult(first, s) = TestResult(other, s)

---------------------------------------------------------------------------
(* C13.  When a glob has an extracted negation group and its positive      *)
(* variant does not compile, convertGlobToRegex returns null.              *)

PositiveVariant(g) == buildGlobVariant(g, extractNegatedGlobs(g), -1)

PositiveFails(g, mode) ==
  /\ Len(extractNegatedGlobs(g)) > 0
  /\ convertGlobToRegex(PositiveVariant(g), mode).kind = "null"

C13_TotalNegationFailure ==
  (pc = "compiled" /\ PositiveFails(glob, anchored)) => matcher.kind = "null"

---------------------------------------------------------------------------
(* C14.  When the positive variant compiles, the compile does not fail;    *)
(* an exclusion variant that compiles stays in force whether or not        *)
(* another one fails, and when none compiles the matcher answers as the    *)
(* matcher of the positive variant.                                        *)

\* the compiled variant of descriptor k (from 1)
ExclusionVariant(g, mode, k) ==
  convertGlobToRegex(buildGlobVariant(g, extractNegatedGlobs(g), k - 1), mode)

Survives(g, mode, k) == ExclusionVariant(g, mode, k).kind # "null"

\* the surviving exclusion k matches s in its entirety
Excludes(g, mode, k, s) ==
  /\ Survives(g, mode, k)
  /\ RegExpTest(AnchoredPattern(SourceOf(ExclusionVariant(g, mode, k))), s)

Descriptors(g) == 1..Len(extractNegatedGlobs(g))

PositiveCompiles(g, mode) ==
  /\ Descriptors(g) # {}
  /\ convertGlobToRegex(PositiveVariant(g), mode).kind # "null"

C14_PartialNegationFailure ==
  (pc # "start" /\ PositiveCompiles(glob, anchored)) =>
    /\ matcher.kind # "null"
    /\ Tested =>
         IF \A k \in Descriptors(glob) : ~Survives(glob, anchored, k)
           THEN result = Bool(TestResult(convertGlobToRegex(PositiveVariant(glob), anchored), str))
         ELSE IF anchored
           THEN (\E k \in Descriptors(glob) : Excludes(glob, anchored, k, str))
                  => result = "false"
         ELSE result = "true" =>
                \E sub \in Substrings(str) :
                  \A k \in Descriptors(glob) : ~Excludes(glob, anchored, k, sub)

\* anchored !(a)b!([) has rejected ab: the second exclusion does not
\* compile, the first one is in force
C14_Witness ==
  /\ Tested
  /\ anchored
  /\ glob = <<"!", "(", "a", ")", "b", "!", "(", "[", ")">>
  /\ ~Survives(glob, anchored, 2)
  /\ Excludes(glob, anchored, 1, str)
  /\ str = <<"a", "b">>
  /\ result = "false"

---------------------------------------------------------------------------
(* C15.  For a glob of literal text, regex-significant characters          *)
(* included, the anchored matcher accepts exactly the glob string itself   *)
(* and the unanchored matcher exactly the candidates that contain it.      *)

C15_LiteralMatchesItself ==
  (Tested /\ glob \in LiteralGlobs) =>
    result = Bool(IF anchored THEN str = glob ELSE glob \in Substrings(str))

\* anchored a.b has rejected aab: the dot is not a wildcard
C15_Witness ==
  /\ Tested
  /\ anchored
  /\ glob = <<"a", ".", "b">>
  /\ str = <<"a", "a", "b">>
  /\ result = "false"

---------------------------------------------------------------------------
(* C16.  For every character x the anchored matcher of l\xr with literal   *)
(* l and r accepts exactly lxr, and the anchored matcher of [\xa] exactly  *)
(* x and a: the escaped character stands for itself.                       *)

C16_EscapeIsLiteral ==
  (Tested /\ anchored) =>
    /\ \A c \in EscapeContexts, x \in EscapedChars :
         glob = EscapeGlob(c[1], x, c[2]) => result = Bool(str = c[1] \o <<x>> \o c[2])
    /\ \A x \in EscapedSyntax \cup {"a", "b"} :
         glob = EscapeClassGlob(x) => result = Bool(str \in {<<x>>, <<"a">>})

---------------------------------------------------------------------------
(* C17.  The anchored matcher of a character class accepts exactly the     *)
(* single characters that are among the characters between the brackets,   *)
(* or, when the first of these is "!", all single characters that are not  *)
(* among the others; a "!" at a later place is a member.                   *)

ClassAccepts(content, s) ==
  /\ Len(s) = 1
  /\ IF content[1] = "!" THEN s[1] \notin SetOf(Tail(content))
     ELSE s[1] \in SetOf(content)

C17_ClassNegationOnlyFirst ==
  (Tested /\ anchored) =>
    \A content \in ClassContents :
      glob = ClassGlob(content) => result = Bool(ClassAccepts(content, str))

---------------------------------------------------------------------------
(* C18.  The descriptors of extractNegatedGlobs are in strictly ascending  *)
(* order of start with disjoint spans; each has "!" at start, "(" at       *)
(* start + 1 and at end the first ")" that brings the depth, 1 after that  *)
(* "(", back to zero; inner is the text strictly between.                  *)

Extracted == pc = "extracted"

\* the number of c in g[a .. b], positions from 0
RECURSIVE CountIn(_, _, _, _)
CountIn(g, c, a, b) ==
  IF a > b THEN 0 ELSE (IF At(g, a) = c THEN 1 ELSE 0) + CountIn(g, c, a + 1, b)

\* the depth after position p, 1 after the "(" at open
DepthAfter(g, open, p) == 1 + CountIn(g, "(", open + 1, p) - CountIn(g, ")", open + 1, p)

\* p is the first position after open where the depth is zero
ClosesAt(g, open, p) ==
  /\ p > open
  /\ p < Len(g)
  /\ DepthAfter(g, open, p) = 0
  /\ \A q \in open + 1..p - 1 : DepthAfter(g, open, q) # 0

WellFormedDescriptor(g, d) ==
  /\ At(g, d.start) = "!"
  /\ At(g, d.start + 1) = "("
  /\ At(g, d.end) = ")"
  /\ ClosesAt(g, d.start + 1, d.end)
  /\ d.inner = Slice(g, d.start + 2, d.end)

C18_ExtractorInvariant ==
  Extracted =>
    /\ \A k \in 1..Len(negations) : WellFormedDescriptor(glob, negations[k])
    /\ \A k \in 1..Len(negations) - 1 : negations[k].end < negations[k + 1].start

\* !(a!(a)) has one descriptor: the inner group has none of its own
C18_Witness ==
  /\ Extracted
  /\ glob = <<"!", "(", "!", "(", ")", ")">>
  /\ negations = <<[start |-> 0, end |-> 5, inner |-> <<"!", "(", ")">>]>>

---------------------------------------------------------------------------
(* C19.  A "!(" without a matching ")" yields no descriptor, and every     *)
(* well-formed group that starts after it and does not lie inside the      *)
(* span of another descriptor is extracted.                                *)

Opens(g, i) == At(g, i) = "!" /\ At(g, i + 1) = "("

Matched(g, i) == Opens(g, i) /\ \E p \in i + 2..Len(g) - 1 : ClosesAt(g, i + 1, p)

Starts(ds) == {ds[k].start : k \in 1..Len(ds)}

InsideOther(ds, j) == \E k \in 1..Len(ds) : ds[k].start < j /\ j <= ds[k].end

C19_MalformedNegationTolerated ==
  Extracted =>
    \A i \in 0..Len(glob) - 2 :
      (Opens(glob, i) /\ ~Matched(glob, i)) =>
        /\ i \notin Starts(negations)
        /\ \A j \in i + 1..Len(glob) - 2 :
             (Matched(glob, j) /\ ~InsideOther(negations, j)) => j \in Starts(negations)

\* !(!(a) has the descriptor of the group that starts inside the tail of
\* the unmatched one
C19_Witness ==
  /\ Extracted
  /\ glob = <<"!", "(", "!", "(", "a", ")">>
  /\ negations = <<[start |-> 2, end |-> 5, inner |-> <<"a">>]>>

---------------------------------------------------------------------------
(* C20.  For a glob whose only "!(" has no matching ")", convertGlobToRegex *)
(* returns a native regular expression, and the anchored one accepts       *)
(* exactly the strings that the glob stands for when "!" and "(" are read  *)
(* as themselves and the rest as a glob.                                   *)

\* the glob g of literal text, "*", "**" and "?" stands for s
RECURSIVE ReadLiterally(_, _)
ReadLiterally(g, s) ==
  IF g = << >> THEN s = << >>
  ELSE IF Len(g) >= 2 /\ g[1] = "*" /\ g[2] = "*"
    THEN LET rest == IF Len(g) >= 3 /\ g[3] = "/" THEN SubSeq(g, 4, Len(g))
                     ELSE SubSeq(g, 3, Len(g))
         IN \E k \in 0..Len(s) : ReadLiterally(rest, SubSeq(s, k + 1, Len(s)))
  ELSE IF g[1] = "*"
    THEN \E k \in 0..Len(s) :
           /\ SeparatorFree(Prefix(s, k))
           /\ ReadLiterally(Tail(g), SubSeq(s, k + 1, Len(s)))
  ELSE IF g[1] = "?"
    THEN s # << >> /\ SeparatorFree(Prefix(s, 1)) /\ ReadLiterally(Tail(g), Tail(s))
  ELSE s # << >> /\ s[1] = g[1] /\ ReadLiterally(Tail(g), Tail(s))

OnlyUnmatched(g) ==
  /\ \E i \in 0..Len(g) - 2 : Opens(g, i)
  /\ \A i \in 0..Len(g) - 2 : Opens(g, i) => ~Matched(g, i)

UnmatchedIsLiteral(cases) ==
  /\ (pc # "start" /\ glob \in WildcardUnmatchedGlobs \cup {c.glob : c \in cases}) =>
       OnlyUnmatched(glob) /\ matcher.kind = "regexp"
  /\ (Tested /\ anchored /\ glob \in WildcardUnmatchedGlobs) =>
       result = Bool(ReadLiterally(glob, str))
  /\ \A c \in cases :
       (Tested /\ anchored /\ glob = c.glob) => result = Bool(str \in c.reading)

---------------------------------------------------------------------------
(* C21.  buildGlobVariant returns the glob with the text outside the       *)
(* descriptors' spans copied in order, the span of descriptor expandIndex  *)
(* replaced by @( inner ) and every other span by one "*"; the glob and    *)
(* the descriptors are left as they were.                                  *)

\* what position p of g contributes to the variant
VariantPiece(g, ds, e, p) ==
  IF \E k \in 1..Len(ds) : ds[k].start = p
    THEN LET k == CHOOSE k \in 1..Len(ds) : ds[k].start = p
         IN IF k - 1 = e THEN <<"@", "(">> \o ds[k].inner \o <<")">> ELSE <<"*">>
  ELSE IF \E k \in 1..Len(ds) : ds[k].start < p /\ p <= ds[k].end
    THEN << >>
  ELSE <<At(g, p)>>

ExpectedVariant(g, ds, e) == Flatten([k \in 1..Len(g) |-> VariantPiece(g, ds, e, k - 1)])

C21_VariantBuilder ==
  [][(pc = "extracted" /\ pc' = "built") =>
       /\ variant' = ExpectedVariant(glob, negations, expandIndex')
       /\ glob' = glob
       /\ negations' = negations]_vars

\* !()!() with the second group expanded is *@()
C21_Witness ==
  /\ pc = "built"
  /\ glob = <<"!", "(", ")", "!", "(", ")">>
  /\ Len(negations) = 2
  /\ expandIndex = 1
  /\ variant = <<"*", "@", "(", ")">>

---------------------------------------------------------------------------
(* C22.  The positive pattern of a negation matcher is the translation of  *)
(* the variant with every group turned into "*", and its exclusions are,   *)
(* in order, the translations of the variants with one group expanded,     *)
(* for the groups whose variant compiles; a group inside the expanded      *)
(* group is translated with it.                                            *)

\* the regular expression text of a translated variant
TranslatedVariant(g, mode, e) ==
  convertGlobToRegexString(buildGlobVariant(g, extractNegatedGlobs(g), e), mode)

VariantCompiles(g, mode, e) ==
  Len(TranslatedVariant(g, mode, e)) > 0 /\ NewRegExp(TranslatedVariant(g, mode, e)).ok

TranslatedSource(g, mode, e) ==
  [defined |-> TRUE, text |-> EscapeRegExpSource(TranslatedVariant(g, mode, e))]

RECURSIVE TranslatedExclusionsFrom(_, _, _)
TranslatedExclusionsFrom(g, mode, e) ==
  IF e >= Len(extractNegatedGlobs(g)) THEN << >>
  ELSE (IF VariantCompiles(g, mode, e) THEN <<TranslatedSource(g, mode, e)>> ELSE << >>)
       \o TranslatedExclusionsFrom(g, mode, e + 1)

C22_ExclusionsAreTranslations ==
  (pc # "start" /\ matcher.kind = "negation") =>
    /\ matcher.positive = TranslatedSource(glob, anchored, -1)
    /\ matcher.negatives = TranslatedExclusionsFrom(glob, anchored, 0)

\* the same for the globs whose groups hold no group
FlatExclusionsAreTranslations ==
  glob \in FlatGlobs => C22_ExclusionsAreTranslations

---------------------------------------------------------------------------
(* C23.  At a position read outside an escape and outside a character     *)
(* class: X( with X one of ? * + @ pushes X, emits (?: and takes both      *)
(* characters, whatever wildcard X is; a ")" with a non-empty stack pops   *)
(* the marker pushed last and emits its suffix; a ")" with an empty stack  *)
(* is emitted escaped; any other step leaves the stack as it is.  The      *)
(* stack holds markers only, never more than groups were opened.           *)

SuffixFor(marker) ==
  CASE marker = "?" -> <<")", "?">>
    [] marker = "*" -> <<")", "*">>
    [] marker = "+" -> <<")", "+">>
    [] marker = "@" -> <<")">>

Markers == {"?", "*", "+", "@"}

\* the iteration reads its character as glob syntax
ReadsSyntax(g, scan) ==
  /\ ~scan.insideSquareBrackets
  /\ ~(At(g, scan.i) = BSL /\ scan.i + 1 < Len(g))

OpensGroup(g, scan) ==
  ReadsSyntax(g, scan) /\ At(g, scan.i) \in Markers /\ At(g, scan.i + 1) = "("

ClosesGroup(g, scan) == ReadsSyntax(g, scan) /\ At(g, scan.i) = ")"

\* what the iteration appended to regexString
Emitted(before, after) ==
  SubSeq(after.regexString, Len(before.regexString) + 1, Len(after.regexString))

StackStep(g, before, after) ==
  LET stack == before.extglobStack
      n == Len(stack)
  IN IF OpensGroup(g, before)
       THEN /\ after.extglobStack = Append(stack, At(g, before.i))
            /\ Emitted(before, after) = <<"(", "?", ":">>
            /\ after.i = before.i + 2
     ELSE IF ClosesGroup(g, before) /\ n > 0
       THEN /\ after.extglobStack = SubSeq(stack, 1, n - 1)
            /\ Emitted(before, after) = SuffixFor(stack[n])
            /\ after.i = before.i + 1
     ELSE IF ClosesGroup(g, before)
       THEN /\ after.extglobStack = << >>
            /\ Emitted(before, after) = <<BSL, ")">>
            /\ after.i = before.i + 1
     ELSE after.extglobStack = stack

\* the number of X( in the first n characters of g
OpenersBefore(g, n) ==
  Cardinality({p \in 0..n - 2 : At(g, p) \in Markers /\ At(g, p + 1) = "("})

C23_GroupStackDiscipline ==
  [][/\ StackStep(glob, scanState, scanState')
     /\ \A k \in 1..Len(scanState'.extglobStack) : scanState'.extglobStack[k] \in Markers
     /\ Len(scanState'.extglobStack) <= OpenersBefore(glob, scanState'.i)]_vars

\* in @(?(a)|b) the scan stands after the first ")": it has closed the
\* inner group as optional and the outer one is still open
C23_Witness ==
  /\ pc = "scanning"
  /\ glob = <<"@", "(", "?", "(", "a", ")", "|", "b", ")">>
  /\ scanState.i = 6
  /\ scanState.extglobStack = <<"@">>
  /\ scanState.regexString = <<"(", "?", ":", "(", "?", ":", "a", ")", "?">>

---------------------------------------------------------------------------
(* C24.  Every iteration of the occurrence loop that does not return moves *)
(* the search position forward, by one past an empty match; the loop finds *)
(* at most Len(str) + 1 occurrences, and a call that has entered the loop  *)
(* returns.                                                                *)

InLoop == pc = "loop"

Returned == pc = "done"

LoopProgress ==
  (InLoop /\ pc' = "loop") =>
    /\ lastIndex' > lastIndex
    /\ occurrences' = occurrences + 1
    /\ LET match == GlobalExec(matcher, str, lastIndex)
       IN lastIndex' = IF match.end = match.index THEN match.index + 1 ELSE match.end

OccurrencesBounded == occurrences <= Len(str) + 1

C24_NegationSearchTerminates ==
  /\ [][LoopProgress]_vars
  /\ []OccurrencesBounded
  /\ (InLoop ~> Returned)

\* !() on "//": the empty match is found at 0, 1 and 2 and vetoed each
\* time, and the call has returned false
C24_Witness ==
  /\ Returned
  /\ ~anchored
  /\ glob = <<"!", "(", ")">>
  /\ str = <<"/", "/">>
  /\ occurrences = Len(str) + 1
  /\ result = "false"

---------------------------------------------------------------------------
(* C25.  Whatever calls of test came before, on this matcher or on         *)
(* another one, a call's result is the one its candidate alone gives: the  *)
(* answers of a matcher to one candidate are all the same.                 *)

\* no candidate with two answers
Functional(pairs) == \A a \in pairs, b \in pairs : a[1] = b[1] => a[2] = b[2]

C25_TestIsStateless ==
  /\ Tested => /\ result = Bool(TestResult(matcher, str))
               /\ Functional(answers \cup {<<str, result>>})
  /\ Functional(secondAnswers)
  /\ \A a \in secondAnswers : a[2] = Bool(TestResult(second, a[1]))

\* a* has accepted ab a second time, after another candidate and after a
\* call on the other matcher
C25_Witness ==
  /\ Tested
  /\ glob = <<"a", "*">>
  /\ ~anchored
  /\ str = <<"a", "b">>
  /\ result = "true"
  /\ answers = {<<str, result>>, <<<<"b", "a", "a">>, "true">>}
  /\ secondAnswers # {}

---------------------------------------------------------------------------
(* C26.  For literal t, anchored **/t accepts exactly t and the candidates *)
(* that are whole path segments, each with its "/", followed by t; and     *)
(* anchored p/**/t exactly p/t and p/, whole segments, t.                  *)

\* u is empty or a run of whole segments, the last "/" included
WholeSegments(u) == u = << >> \/ u[Len(u)] = "/"

GlobstarSegmentsAccepts(p, t, s) ==
  LET head == IF p = << >> THEN << >> ELSE p \o <<"/">>
  IN /\ Len(s) >= Len(head) + Len(t)
     /\ Prefix(s, Len(head)) = head
     /\ Suffix(s, Len(t)) = t
     /\ WholeSegments(SubSeq(s, Len(head) + 1, Len(s) - Len(t)))

LiteralRests == {r \in Rests : \A k \in 1..Len(r) : r[k] # "*"}

C26_GlobstarWholeSegments ==
  (Tested /\ anchored) =>
    \A p \in Befores, t \in LiteralRests :
      glob = GlobstarGlob(p, t) => result = Bool(GlobstarSegmentsAccepts(p, t, str))

---------------------------------------------------------------------------
(* C27.  In the positive pattern of a negation glob every group is the     *)
(* wildcard that stays within a segment, whatever stands next to the       *)
(* group: the pattern is the translation of the text between the groups    *)
(* with that wildcard in the place of each group, and an anchored matcher  *)
(* of a glob without "/" accepts no candidate with a "/".                  *)

\* the translation of g from position p on, with StarRegex for every group
RECURSIVE NeutralisedFrom(_, _, _, _)
NeutralisedFrom(g, ds, k, p) ==
  IF k > Len(ds) THEN convertGlobToRegexString(SliceFrom(g, p), FALSE)
  ELSE convertGlobToRegexString(Slice(g, p, ds[k].start), FALSE)
       \o StarRegex
       \o NeutralisedFrom(g, ds, k + 1, ds[k].end + 1)

Neutralised(g, mode) ==
  EscapeRegExpSource(Anchor(NeutralisedFrom(g, extractNegatedGlobs(g), 1, 0), mode))

NegationStaysInSegment(globs) ==
  glob \in globs =>
    /\ (pc # "start" /\ matcher.kind = "negation") =>
         matcher.positive = [defined |-> TRUE, text |-> Neutralised(glob, anchored)]
    /\ (Tested /\ anchored /\ result = "true") => SeparatorFree(str)

C27_NeutralisedNegationIsSegmentWildcard ==
  NegationStaysInSegment(AdjacentGlobs \cup ApartGlobs)

\* the same for the groups with literal text or "?" next to them
ApartNegationStaysInSegment == NegationStaysInSegment(ApartGlobs)

---------------------------------------------------------------------------
(* C28.  A "," between a "{" and its matching "}" separates alternatives,  *)
(* in nested brace groups as well, and a "," outside every brace group is  *)
(* a comma: the anchored matcher accepts exactly the expansions.           *)

AcceptsExpansions(cases) ==
  \A c \in cases :
    (Tested /\ anchored /\ glob = c.glob) => result = Bool(str \in c.expansions)

C28_BraceNesting == AcceptsExpansions(NestedBraceCases \cup FlatBraceCases)

\* the same without a group in a group
FlatBraceAcceptsExpansions == AcceptsExpansions(FlatBraceCases)

---------------------------------------------------------------------------
(* C29.  A candidate that the anchored matcher of a negation glob accepts  *)
(* is accepted by the unanchored matcher of the same glob.                 *)

HasNegation(g) == Len(extractNegatedGlobs(g)) > 0

---------------------------------------------------------------------------
(* C30.  A "!(" after an escaping backslash or inside a character class is *)
(* not extracted as a negation group, and the glob compiles to the matcher *)
(* of its direct translation.                                              *)

\* position p of g is read as glob syntax: not escaped and not in a class
RECURSIVE QuotedAtFrom(_, _, _, _)
QuotedAtFrom(g, p, i, inClass) ==
  IF i > p THEN FALSE
  ELSE IF At(g, i) = BSL /\ i + 1 < Len(g)
    THEN IF p = i + 1 THEN TRUE ELSE QuotedAtFrom(g, p, i + 2, inClass)
  ELSE IF inClass
    THEN IF i = p THEN TRUE ELSE QuotedAtFrom(g, p, i + 1, At(g, i) # "]")
  ELSE IF i = p THEN FALSE ELSE QuotedAtFrom(g, p, i + 1, At(g, i) = "[")

QuotedAt(g, p) == QuotedAtFrom(g, p, 0, FALSE)

DirectMatcher(g, mode) == CompileRegexString(convertGlobToRegexString(g, mode))

C30_ExtractionRespectsQuoting ==
  /\ \A k \in 1..Len(extractNegatedGlobs(glob)) :
       ~QuotedAt(glob, extractNegatedGlobs(glob)[k].start)
  /\ (pc # "start" /\ \A p \in 0..Len(glob) - 2 : Opens(glob, p) => QuotedAt(glob, p)) =>
       matcher = DirectMatcher(glob, anchored)

====
